---- MODULE Spec2Model ----
(***************************************************************************)
(* Two-phase authentication and session lifecycle of the bot control       *)
(* centre (server/auth-service.ts with the auth part of server/storage.ts).*)
(*                                                                         *)
(* Every request handler is an async function: it runs without interruption*)
(* from one await to the next, and other handlers run in between.  A       *)
(* handler is modelled as a process slot whose pc names the await it is    *)
(* parked on; one action is one segment of the handler (the awaited store  *)
(* operation together with the synchronous code that follows it).          *)
(* Time is in milliseconds, as Date.now() reports it.                      *)
(***************************************************************************)
EXTENDS Integers, Sequences, FiniteSets, TLC

----------------------------------------------------------------------------
\* Bounds of the exploration
MaxCodes == 2
ThrottleCalls == 4
ThrottleTicks == 1
LoginCalls == 3
LoginTicks == 1
SessionCalls == 4
SessionTicks == 2
PasswordCalls == 3
LogoutCalls == 5
RedeemCalls == 4
RedeemTicks == 1
ProbeCalls == 4
ProbeTicks == 1
RoutesCalls == 4
RoutesTicks == 2
FaultsCalls == 4
FaultsTicks == 2
HappyCalls == 4
HappyTicks == 2
RaceCalls == 4
RaceTicks == 2
ReviveCalls == 6
ReviveTicks == 1
SweepCalls == 3
SweepTicks == 1
HangCalls == 3
HangTicks == 1
IdleCalls == 3
IdleTicks == 2
LockoutCalls == 5
LockoutTicks == 2
ProfileCalls == 5
MaxSessions == 2

\* Slots for the request handlers in flight; OneAtATime serves the
\* requests one after the other
Procs == {1, 2}
OneAtATime == {1}
CodeIds == 1 .. MaxCodes
Tokens == 1 .. MaxSessions

----------------------------------------------------------------------------
\* Configuration of AuthService
maxLoginAttempts == 3
lockoutDuration == 15 * 60 * 1000
codeExpiry == 5 * 60 * 1000
sessionExpiry == 24 * 60 * 60 * 1000
attemptRetention == 60 * 60 * 1000

\* Amounts by which the clock advances between two steps
ShortJumps == {60 * 1000, lockoutDuration}
LongJumps == {lockoutDuration, sessionExpiry}
MixedJumps == {60 * 1000, sessionExpiry}
LockoutJumps == {1, 60 * 1000, lockoutDuration - 1, attemptRetention + 1}
SweepJumps == {60 * 1000, attemptRetention, attemptRetention + 60 * 1000}

----------------------------------------------------------------------------
\* Input domains
IPs == {"127.0.0.1", "1.2.3.4"}
localhostIPs == {"127.0.0.1", "localhost", "::1", "0.0.0.0"}
Emails == {"a@b.com", "A@B.com", "x@y.com"}
Passwords == {"secret123", "hunter22"}
CodeValues == {"123456", "654321"}
GeneratedCodes == {"123456"}
Salts == {1, 2}
UserIds == {1}
UnknownUserIds == {2}
EmptyToken == 0
UserAgent == "Mozilla"
WhitelistChoices == {{}, {"1.2.3.4"}}

\* String.prototype.toLowerCase on the e-mail addresses of the model
toLowerCase(e) == IF e = "A@B.com" THEN "a@b.com" ELSE e

\* bcrypt.hash: a salted one-way digest; bcrypt.compare re-hashes the
\* candidate under the salt carried by the stored hash
bcryptHash(pw, salt) == [salt |-> salt, digest |-> <<salt, pw>>]
bcryptCompare(pw, hash) == bcryptHash(pw, hash.salt) = hash

----------------------------------------------------------------------------
NoUser == [id |-> 0]
NoCode == [used |-> FALSE, expiresAt |-> -1]
NoAttempt == [count |-> 0, lastAttempt |-> -1]
NoSession == [userId |-> 0]
NoResult == "none"
NoChange == [seq |-> -1]

VARIABLES
    now,                \* Date.now()
    ticksLeft,          \* clock advances the exploration still takes
    callsLeft,          \* requests the exploration still issues
    nodeEnv,            \* process.env.NODE_ENV
    users,              \* Credential Store: the users table
    sessions,           \* Session Store: the auth_sessions table, by token
    verificationCodes,  \* AuthService.verificationCodes
    loginAttempts,      \* AuthService.loginAttempts
    procs,              \* the request handlers in flight
    issued,             \* history: the entry stored under each code id, and when
    minted,             \* history: the code id each session token was made for
    created,            \* history: sessions inserted per code id
    succeeded,          \* history: successful verify2FACode returns per code id
    expiredReported,    \* history: when verifySession first reported a token expired
    changed,            \* history: the latest successful changePassword
    loggedOut           \* history: when logout first reported success for a token

hist == <<issued, minted, created, succeeded, expiredReported, changed, loggedOut>>
vars == <<now, ticksLeft, callsLeft, nodeEnv, users, sessions, verificationCodes,
          loginAttempts, procs, hist>>

Idle == [pc |-> "idle", op |-> "none", email |-> "", password |-> "",
         newPassword |-> "", ip |-> "", codeId |-> 0, code |-> "",
         token |-> 0, userId |-> 0, ips |-> {}, user |-> NoUser,
         session |-> NoSession, expiresAt |-> -1, result |-> NoResult,
         \* history of the call: when it began (clock, requests left), the
         \* throttle entry it found, the count its recorded failure left behind
         at |-> -1, seq |-> -1, seen |-> NoAttempt, countAfter |-> 0,
         \* the code id in the result handed to the caller, and whether the
         \* mail transport took the message
         resultCodeId |-> 0, delivered |-> FALSE,
         \* the user record in the result handed to the caller
         resultUser |-> NoUser,
         \* history: what raised an exception during the call
         raised |-> "none",
         \* the seconds to wait that a RateLimited result reports
         remainingTime |-> 0]

Free(p) == procs[p].pc \in {"idle", "done"}

\* A new request takes the lowest free slot (the slots are interchangeable)
Accepts(p) == Free(p) /\ \A q \in Procs : q < p => ~ Free(q)

\* A handler is invoked: it takes slot p, next to the handlers in flight.
\* Only the call that returned last is remembered.
Begin(p, call) ==
    [q \in Procs |->
        IF q = p
        THEN [call EXCEPT !.at = now, !.seq = callsLeft]
        ELSE IF call.pc = "done" /\ procs[q].pc = "done" THEN Idle
        ELSE procs[q]]

\* A handler returns: its locals are dropped, its arguments and result stay
Done(p, r) == [procs[p] EXCEPT !.pc = "done", !.result = r,
                               !.user = NoUser, !.session = NoSession,
                               !.expiresAt = -1]

Return(p, call) ==
    [q \in Procs |->
        IF q = p THEN call
        ELSE IF procs[q].pc = "done" THEN Idle
        ELSE procs[q]]

\* The service right after construction, with one provisioned user
Constructed ==
    /\ now = 0
    /\ nodeEnv \in {"development", "production"}
    /\ \E wl \in WhitelistChoices :
         users = [id \in UserIds |->
                    [id |-> id, email |-> "a@b.com",
                     passwordHash |-> bcryptHash("secret123", 1),
                     role |-> "admin", name |-> "Admin",
                     isActive |-> TRUE, whitelistedIPs |-> wl]]
    /\ sessions = [t \in Tokens |-> NoSession]
    /\ verificationCodes = [c \in CodeIds |-> NoCode]
    /\ loginAttempts = [ip \in IPs |-> NoAttempt]
    /\ procs = [p \in Procs |-> Idle]
    /\ issued = [c \in CodeIds |-> NoCode]
    /\ minted = [t \in Tokens |-> 0]
    /\ created = [c \in CodeIds |-> 0]
    /\ succeeded = [c \in CodeIds |-> 0]
    /\ expiredReported = [t \in Tokens |-> -1]
    /\ changed = NoChange
    /\ loggedOut = [t \in Tokens |-> -1]

----------------------------------------------------------------------------
\* Credential Store and Session Store (DatabaseStorage)

getUser(id) == IF id \in UserIds THEN users[id] ELSE NoUser

getUserByEmail(email) ==
    IF \E id \in UserIds : users[id].email = email
    THEN users[CHOOSE id \in UserIds : users[id].email = email]
    ELSE NoUser

getAuthSession(token) == IF token \in Tokens THEN sessions[token] ELSE NoSession

\* The row is removed instead of updated
updateAuthSession_removing(token, active) ==
    IF token \in Tokens THEN [sessions EXCEPT ![token] = NoSession] ELSE sessions

\* The update is lost
updateAuthSession_dropped(token, active) == sessions

\* UPDATE auth_sessions SET ... WHERE session_token = token
updateAuthSession(token, active) ==
    IF token \in Tokens /\ sessions[token] # NoSession
    THEN [sessions EXCEPT ![token].isActive = active]
    ELSE sessions

\* The row is left in the table
deleteAuthSession_kept(token) == sessions

\* DELETE FROM auth_sessions WHERE session_token = token
deleteAuthSession(token) ==
    IF token \in Tokens THEN [sessions EXCEPT ![token] = NoSession] ELSE sessions

\* DELETE FROM auth_sessions WHERE expires_at < NOW()
cleanupExpiredSessions ==
    [t \in Tokens |->
        IF sessions[t] # NoSession /\ sessions[t].expiresAt < now
        THEN NoSession ELSE sessions[t]]

----------------------------------------------------------------------------
\* Login Throttle Tracker

\* The seconds are rounded down
remainingTime_floor(ip) ==
    (lockoutDuration - (now - loginAttempts[ip].lastAttempt)) \div 1000

\* line 124: Math.ceil((lockoutDuration - timeSinceLastAttempt) / 1000)
remainingTime(ip) ==
    (lockoutDuration - (now - loginAttempts[ip].lastAttempt) + 999) \div 1000

\* The verdict with the threshold off by one
checkLoginAttempts_lenient(ip) ==
    ~ (/\ loginAttempts[ip] # NoAttempt
       /\ loginAttempts[ip].count > maxLoginAttempts
       /\ now - loginAttempts[ip].lastAttempt < lockoutDuration)

\* checkLoginAttempts: the verdict
checkLoginAttempts(ip) ==
    ~ (/\ loginAttempts[ip] # NoAttempt
       /\ loginAttempts[ip].count >= maxLoginAttempts
       /\ now - loginAttempts[ip].lastAttempt < lockoutDuration)

\* The tracker when the reset after the lockout period is forgotten
afterCheckLoginAttempts_kept(ip) == loginAttempts

\* checkLoginAttempts: the tracker it leaves behind
afterCheckLoginAttempts(ip) ==
    IF /\ loginAttempts[ip] # NoAttempt
       /\ loginAttempts[ip].count >= maxLoginAttempts
       /\ ~ (now - loginAttempts[ip].lastAttempt < lockoutDuration)
    THEN [loginAttempts EXCEPT ![ip] = NoAttempt]
    ELSE loginAttempts

\* A failure is counted twice
recordLoginAttempt_double(ip, success) ==
    IF success
    THEN [loginAttempts EXCEPT ![ip] = NoAttempt]
    ELSE [loginAttempts EXCEPT ![ip] =
            [count |-> loginAttempts[ip].count + 2, lastAttempt |-> now]]

\* A success leaves the entry of the address in place
recordLoginAttempt_successKept(ip, success) ==
    IF success
    THEN loginAttempts
    ELSE [loginAttempts EXCEPT ![ip] =
            [count |-> loginAttempts[ip].count + 1, lastAttempt |-> now]]

\* A failure is counted on top of the count that the oldest call in flight
\* from the address found when it began
recordLoginAttempt_stale(ip, success) ==
    LET found == {procs[p].seen.count :
                     p \in {q \in Procs : /\ procs[q].op = "verifyCredentials"
                                          /\ procs[q].pc \notin {"idle", "done"}
                                          /\ procs[q].ip = ip}}
        least == IF found = {} THEN loginAttempts[ip].count
                 ELSE CHOOSE n \in found : \A m \in found : n <= m
    IN  IF success
        THEN [loginAttempts EXCEPT ![ip] = NoAttempt]
        ELSE [loginAttempts EXCEPT ![ip] =
                [count |-> least + 1, lastAttempt |-> now]]

\* lines 136-146: one synchronous read, increment and write
recordLoginAttempt(ip, success) ==
    IF success
    THEN [loginAttempts EXCEPT ![ip] = NoAttempt]
    ELSE [loginAttempts EXCEPT ![ip] =
            [count |-> loginAttempts[ip].count + 1, lastAttempt |-> now]]

\* An empty allow-list admits nobody
isIPWhitelisted_strict(user, ip) == ip \in user.whitelistedIPs

\* lines 148-158
isIPWhitelisted(user, ip) ==
    IF user.whitelistedIPs = {} THEN TRUE
    ELSE IF nodeEnv = "development" /\ ip \in localhostIPs THEN TRUE
    ELSE ip \in user.whitelistedIPs

----------------------------------------------------------------------------
\* Fresh identifiers: crypto.randomUUID() and crypto.randomBytes(32)
\* An identifier may come out a second time
FreshCodeIds_reused == CodeIds

FreshCodeIds == {c \in CodeIds : issued[c] = NoCode}
FreshTokens == {t \in Tokens : minted[t] = 0}

\* The code ids a client submits: the issued ones and one that never was
SubmittedCodeIds ==
    {c \in CodeIds : issued[c] # NoCode \/ \A d \in FreshCodeIds : c <= d}
InFlight(pcs) == Cardinality({p \in Procs : procs[p].pc \in pcs})

----------------------------------------------------------------------------
\* verifyCredentials

\* lines 212-224: the throttle check, up to the user lookup
VerifyCredentials(p, email, password, ip) ==
    /\ Accepts(p)
    /\ callsLeft > 0
    /\ Cardinality(FreshCodeIds) > InFlight({"vc_getUser", "vc_compare"})
    /\ callsLeft' = callsLeft - 1
    /\ loginAttempts' = afterCheckLoginAttempts(ip)
    /\ LET call == [Idle EXCEPT !.op = "verifyCredentials", !.email = email,
                                !.password = password, !.ip = ip,
                                !.seen = loginAttempts[ip]]
       IN  IF checkLoginAttempts(ip)
           THEN procs' = Begin(p, [call EXCEPT !.pc = "vc_getUser"])
           ELSE procs' = Begin(p, [call EXCEPT !.pc = "done",
                                               !.result = "RateLimited",
                                               !.remainingTime = remainingTime(ip)])
    /\ UNCHANGED <<now, ticksLeft, nodeEnv, users, sessions, verificationCodes, hist>>

\* A failed attempt is recorded and the handler returns
Failed(p, r) ==
    /\ loginAttempts' = recordLoginAttempt(procs[p].ip, FALSE)
    /\ procs' = Return(p, [Done(p, r) EXCEPT
                             !.countAfter = loginAttempts'[procs[p].ip].count])

\* lines 224-234: the user lookup resolves
VcGetUser(p) ==
    /\ procs[p].pc = "vc_getUser"
    /\ LET user == getUserByEmail(toLowerCase(procs[p].email))
       IN  IF user = NoUser \/ ~ user.isActive
           THEN Failed(p, "InvalidCredentials")
           ELSE /\ loginAttempts' = loginAttempts
                /\ procs' = [procs EXCEPT ![p].pc = "vc_compare", ![p].user = user]
    /\ UNCHANGED <<now, ticksLeft, callsLeft, nodeEnv, users, sessions,
                   verificationCodes, hist>>

\* The allow-list is consulted before the password
credentialChecks_listFirst(password, user, ip) ==
    IF ~ isIPWhitelisted(user, ip) THEN "AccessDenied"
    ELSE IF ~ bcryptCompare(password, user.passwordHash) THEN "InvalidCredentials"
    ELSE "ok"

\* lines 235, 245: the password, then the allow-list
credentialChecks(password, user, ip) ==
    IF ~ bcryptCompare(password, user.passwordHash) THEN "InvalidCredentials"
    ELSE IF ~ isIPWhitelisted(user, ip) THEN "AccessDenied"
    ELSE "ok"

\* lines 234-271: the password comparison resolves
VcCompare(p) ==
    /\ procs[p].pc = "vc_compare"
    /\ LET user == procs[p].user
           ip == procs[p].ip
           verdict == credentialChecks(procs[p].password, user, ip)
       IN  IF verdict # "ok"
           THEN /\ Failed(p, verdict)
                /\ UNCHANGED <<verificationCodes, issued>>
           ELSE \E code \in GeneratedCodes :
                  LET codeId == CHOOSE c \in FreshCodeIds :
                                    \A d \in FreshCodeIds : c <= d
                      verificationCode ==
                          [code |-> code, email |-> user.email, ip |-> ip,
                           userAgent |-> UserAgent,
                           expiresAt |-> now + codeExpiry, used |-> FALSE]
                  IN  /\ verificationCodes' =
                            [verificationCodes EXCEPT ![codeId] = verificationCode]
                      /\ issued' = [issued EXCEPT ![codeId] =
                            [code |-> code, email |-> user.email, ip |-> ip,
                             expiresAt |-> now + codeExpiry, used |-> FALSE,
                             seq |-> callsLeft]]
                      /\ procs' = [procs EXCEPT ![p].pc = "vc_send",
                                                ![p].codeId = codeId,
                                                ![p].code = code]
                      /\ UNCHANGED loginAttempts
    /\ UNCHANGED <<now, ticksLeft, callsLeft, nodeEnv, users, sessions, minted,
                   created, succeeded, expiredReported, changed, loggedOut>>

\* lines 160-193: no mail is sent in development; otherwise the outcome is
\* that of the mail transport (configured, and sendMail did not throw)
sendVerificationCode(delivered) ==
    IF nodeEnv = "development" THEN TRUE ELSE delivered

\* A failed dispatch is never reported
notificationFailed_never(emailSent) == FALSE

\* line 272
notificationFailed(emailSent) == ~ emailSent /\ nodeEnv # "development"

\* lines 271-286: the dispatch of the code resolves
VcSend(p) ==
    /\ procs[p].pc = "vc_send"
    /\ \E delivered \in BOOLEAN :
         LET emailSent == sendVerificationCode(delivered)
         IN  IF notificationFailed(emailSent)
             THEN procs' = Return(p, [Done(p, "NotificationError") EXCEPT
                                        !.delivered = delivered])
             ELSE procs' = Return(p, [Done(p, "CodeSent") EXCEPT
                                        !.delivered = delivered,
                                        !.resultCodeId = procs[p].codeId])
    /\ UNCHANGED <<now, ticksLeft, callsLeft, nodeEnv, users, sessions,
                   verificationCodes, loginAttempts, hist>>

\* lines 172-188: sendMail is awaited without a time limit; its promise
\* may stay pending for good, and the handler with it
DispatchHangs(p) ==
    /\ procs[p].pc = "vc_send"
    /\ nodeEnv # "development"
    /\ procs' = [procs EXCEPT ![p].pc = "vc_hung"]
    /\ UNCHANGED <<now, ticksLeft, callsLeft, nodeEnv, users, sessions,
                   verificationCodes, loginAttempts, hist>>

----------------------------------------------------------------------------
\* verify2FACode

\* The checks without the test of the used flag
verify2FAChecks_usedIgnored(codeId, inputCode, ip) ==
    LET verification == verificationCodes[codeId]
    IN  IF verification = NoCode THEN "InvalidOrExpiredCode"
        ELSE IF now > verification.expiresAt THEN "CodeExpired"
        ELSE IF verification.ip # ip THEN "SecurityMismatch"
        ELSE IF verification.code # inputCode THEN "InvalidCode"
        ELSE "ok"

\* The checks without the test of the expiry
verify2FAChecks_expiryIgnored(codeId, inputCode, ip) ==
    LET verification == verificationCodes[codeId]
    IN  IF verification = NoCode THEN "InvalidOrExpiredCode"
        ELSE IF verification.used THEN "CodeAlreadyUsed"
        ELSE IF verification.ip # ip THEN "SecurityMismatch"
        ELSE IF verification.code # inputCode THEN "InvalidCode"
        ELSE "ok"

\* The checks without the test of the source address
verify2FAChecks_addressIgnored(codeId, inputCode, ip) ==
    LET verification == verificationCodes[codeId]
    IN  IF verification = NoCode THEN "InvalidOrExpiredCode"
        ELSE IF now > verification.expiresAt THEN "CodeExpired"
        ELSE IF verification.used THEN "CodeAlreadyUsed"
        ELSE IF verification.code # inputCode THEN "InvalidCode"
        ELSE "ok"

\* The source address and the code are tested before expiry and used flag
verify2FAChecks_addressFirst(codeId, inputCode, ip) ==
    LET verification == verificationCodes[codeId]
    IN  IF verification = NoCode THEN "InvalidOrExpiredCode"
        ELSE IF verification.ip # ip THEN "SecurityMismatch"
        ELSE IF verification.code # inputCode THEN "InvalidCode"
        ELSE IF now > verification.expiresAt THEN "CodeExpired"
        ELSE IF verification.used THEN "CodeAlreadyUsed"
        ELSE "ok"

\* lines 300-339: the checks on the entry, in the order of the code
verify2FAChecks(codeId, inputCode, ip) ==
    LET verification == verificationCodes[codeId]
    IN  IF verification = NoCode THEN "InvalidOrExpiredCode"
        ELSE IF now > verification.expiresAt THEN "CodeExpired"
        ELSE IF verification.used THEN "CodeAlreadyUsed"
        ELSE IF verification.ip # ip THEN "SecurityMismatch"
        ELSE IF verification.code # inputCode THEN "InvalidCode"
        ELSE "ok"

\* The entry is left in the cache after a successful login
consumeCode_kept(codeId) == verificationCodes

\* line 374: verificationCodes.delete(codeId)
consumeCode(codeId) == [verificationCodes EXCEPT ![codeId] = NoCode]

\* A wrong guess burns the entry
afterVerify2FAChecks_burning(codeId, verdict) ==
    IF verdict \in {"CodeExpired", "InvalidCode"}
    THEN [verificationCodes EXCEPT ![codeId] = NoCode]
    ELSE IF verdict = "ok"
    THEN [verificationCodes EXCEPT ![codeId].used = TRUE]
    ELSE verificationCodes

\* lines 312, 341: the cache after the checks; an expired entry is deleted,
\* an entry that passed is marked used
afterVerify2FAChecks(codeId, verdict) ==
    IF verdict = "CodeExpired"
    THEN [verificationCodes EXCEPT ![codeId] = NoCode]
    ELSE IF verdict = "ok"
    THEN [verificationCodes EXCEPT ![codeId].used = TRUE]
    ELSE verificationCodes

\* lines 298-346: the checks, the used mark, up to the user lookup
Verify2FACode(p, codeId, inputCode, ip) ==
    /\ Accepts(p)
    /\ callsLeft > 0
    /\ Cardinality(FreshTokens) > InFlight({"v2_getUser"})
    /\ callsLeft' = callsLeft - 1
    /\ LET call == [Idle EXCEPT !.op = "verify2FACode", !.codeId = codeId,
                                !.code = inputCode, !.ip = ip,
                                !.seen = loginAttempts[ip]]
           verdict == verify2FAChecks(codeId, inputCode, ip)
       IN  /\ verificationCodes' = afterVerify2FAChecks(codeId, verdict)
           /\ procs' = Begin(p,
                 IF verdict = "ok"
                 THEN [call EXCEPT !.pc = "v2_getUser",
                                   !.email = verificationCodes[codeId].email]
                 ELSE [call EXCEPT !.pc = "done", !.result = verdict])
    /\ UNCHANGED <<now, ticksLeft, nodeEnv, users, sessions, loginAttempts, hist>>

\* lines 346-367: the user lookup resolves
V2GetUser(p) ==
    /\ procs[p].pc = "v2_getUser"
    /\ LET user == getUserByEmail(procs[p].email)
       IN  IF user = NoUser \/ ~ user.isActive
           THEN /\ procs' = Return(p, Done(p, "UserUnavailable"))
                /\ UNCHANGED minted
           ELSE LET sessionToken == CHOOSE t \in FreshTokens :
                                        \A u \in FreshTokens : t <= u
                IN  /\ procs' = [procs EXCEPT ![p].pc = "v2_createSession",
                                              ![p].user = user,
                                              ![p].token = sessionToken,
                                              ![p].expiresAt = now + sessionExpiry]
                    /\ minted' = [minted EXCEPT ![sessionToken] = procs[p].codeId]
    /\ UNCHANGED <<now, ticksLeft, callsLeft, nodeEnv, users, sessions,
                   verificationCodes, loginAttempts, issued, created, succeeded,
                   expiredReported, changed, loggedOut>>

\* lines 367-371: the insert of the session resolves
V2CreateSession(p) ==
    /\ procs[p].pc = "v2_createSession"
    /\ sessions' = [sessions EXCEPT ![procs[p].token] =
                      [userId |-> procs[p].user.id, ipAddress |-> procs[p].ip,
                       userAgent |-> UserAgent, isActive |-> TRUE,
                       expiresAt |-> procs[p].expiresAt]]
    /\ created' = [created EXCEPT ![procs[p].codeId] = @ + 1]
    /\ loginAttempts' = recordLoginAttempt(procs[p].ip, TRUE)
    /\ procs' = [procs EXCEPT ![p].pc = "v2_log"]
    /\ UNCHANGED <<now, ticksLeft, callsLeft, nodeEnv, users, verificationCodes,
                   issued, minted, succeeded, expiredReported, changed, loggedOut>>

\* lines 371-381: the audit entry resolves, or logActivity has swallowed
\* the exception of the Activity Log Sink (lines 206-208)
V2FinishAs(p, raised) ==
    /\ procs[p].pc = "v2_log"
    /\ verificationCodes' = consumeCode(procs[p].codeId)
    /\ succeeded' = [succeeded EXCEPT ![procs[p].codeId] = @ + 1]
    /\ procs' = Return(p, [Done(p, "LoginSuccessful") EXCEPT
                             !.resultUser = procs[p].user,
                             !.raised = raised])
    /\ UNCHANGED <<now, ticksLeft, callsLeft, nodeEnv, users, sessions,
                   loginAttempts, issued, minted, created, expiredReported, changed,
                   loggedOut>>

V2Finish(p) == V2FinishAs(p, "none")

V2LogThrows(p) == V2FinishAs(p, "log")

----------------------------------------------------------------------------
\* verifySession

\* The expiry is never looked at
sessionExpired_never(session) == FALSE

\* line 408: new Date() > session.expiresAt
sessionExpired(session) == now > session.expiresAt

\* lines 393-413: the session lookup and the checks on the row; op names
\* the caller (the service's client, or a route's middleware)
VerifySessionAs(p, sessionToken, op) ==
    /\ Accepts(p)
    /\ callsLeft > 0
    /\ callsLeft' = callsLeft - 1
    /\ LET call == [Idle EXCEPT !.op = op, !.token = sessionToken]
           session == getAuthSession(sessionToken)
       IN  procs' = Begin(p,
             IF sessionToken = EmptyToken
             THEN [call EXCEPT !.pc = "done", !.result = "NoToken"]
             ELSE IF session = NoSession
             THEN [call EXCEPT !.pc = "done", !.result = "InvalidToken"]
             ELSE IF ~ session.isActive
             THEN [call EXCEPT !.pc = "done", !.result = "SessionInactive"]
             ELSE IF sessionExpired(session)
             THEN [call EXCEPT !.pc = "vs_expire"]
             ELSE [call EXCEPT !.pc = "vs_getUser", !.session = session])
    /\ UNCHANGED <<now, ticksLeft, nodeEnv, users, sessions, verificationCodes,
                   loginAttempts, hist>>

VerifySession(p, sessionToken) == VerifySessionAs(p, sessionToken, "verifySession")

\* lines 409-410: the write-back of an expired session resolves
VsExpire(p) ==
    /\ procs[p].pc = "vs_expire"
    /\ sessions' = updateAuthSession(procs[p].token, FALSE)
    /\ expiredReported' =
          IF expiredReported[procs[p].token] = -1
          THEN [expiredReported EXCEPT ![procs[p].token] = callsLeft]
          ELSE expiredReported
    /\ procs' = Return(p, Done(p, "SessionExpired"))
    /\ UNCHANGED <<now, ticksLeft, callsLeft, nodeEnv, users, verificationCodes,
                   loginAttempts, issued, minted, created, succeeded, changed,
                   loggedOut>>

\* lines 413-423: the lookup of the owning user resolves
VsGetUser(p) ==
    /\ procs[p].pc = "vs_getUser"
    /\ LET user == getUser(procs[p].session.userId)
       IN  IF user = NoUser \/ ~ user.isActive
           THEN procs' = [procs EXCEPT ![p].pc = "vs_deactivate"]
           ELSE procs' = Return(p, [Done(p, "Valid") EXCEPT
                                     !.session = procs[p].session,
                                     !.resultUser = user])
    /\ UNCHANGED <<now, ticksLeft, callsLeft, nodeEnv, users, sessions,
                   verificationCodes, loginAttempts, hist>>

\* lines 415-416: the write-back for an unavailable user resolves
VsDeactivate(p) ==
    /\ procs[p].pc = "vs_deactivate"
    /\ sessions' = updateAuthSession(procs[p].token, FALSE)
    /\ procs' = Return(p, Done(p, "UserInactive"))
    /\ UNCHANGED <<now, ticksLeft, callsLeft, nodeEnv, users, verificationCodes,
                   loginAttempts, hist>>

----------------------------------------------------------------------------
\* logout

\* Every logout is told that a row was deleted
sessionDeleted_always(sessionToken) == TRUE

\* DatabaseStorage.deleteAuthSession: result.rowCount > 0
sessionDeleted(sessionToken) == getAuthSession(sessionToken) # NoSession

\* lines 432-446
Logout(p, sessionToken) ==
    /\ Accepts(p)
    /\ callsLeft > 0
    /\ callsLeft' = callsLeft - 1
    /\ sessions' = deleteAuthSession(sessionToken)
    /\ loggedOut' =
          IF sessionDeleted(sessionToken) /\ loggedOut[sessionToken] = -1
          THEN [loggedOut EXCEPT ![sessionToken] = callsLeft]
          ELSE loggedOut
    /\ procs' = Begin(p,
          [Idle EXCEPT !.op = "logout", !.token = sessionToken, !.pc = "done",
                       !.result = IF sessionDeleted(sessionToken)
                                  THEN "LoggedOut" ELSE "SessionNotFound"])
    /\ UNCHANGED <<now, ticksLeft, nodeEnv, users, verificationCodes,
                   loginAttempts, issued, minted, created, succeeded,
                   expiredReported, changed>>

----------------------------------------------------------------------------
\* cleanupExpiredData

\* lines 449-452: the sweep of the Session Store
CleanupExpiredData(p) ==
    /\ Accepts(p)
    /\ callsLeft > 0
    /\ callsLeft' = callsLeft - 1
    /\ sessions' = cleanupExpiredSessions
    /\ procs' = Begin(p, [Idle EXCEPT !.op = "cleanupExpiredData",
                                      !.pc = "cl_maps"])
    /\ UNCHANGED <<now, ticksLeft, nodeEnv, users, verificationCodes,
                   loginAttempts, hist>>

\* The sweep removes the used entries too
sweptVerificationCodes_used ==
    [c \in CodeIds |->
        IF verificationCodes[c] # NoCode
           /\ (now > verificationCodes[c].expiresAt \/ verificationCodes[c].used)
        THEN NoCode ELSE verificationCodes[c]]

\* lines 454-460: the sweep of the Verification Code Cache
sweptVerificationCodes ==
    [c \in CodeIds |->
        IF verificationCodes[c] # NoCode
           /\ now > verificationCodes[c].expiresAt
        THEN NoCode ELSE verificationCodes[c]]

\* The sweep removes the entries that are a minute old
sweptLoginAttempts_eager ==
    LET oneMinuteAgo == now - 60 * 1000
    IN  [ip \in IPs |->
            IF loginAttempts[ip] # NoAttempt
               /\ loginAttempts[ip].lastAttempt <= oneMinuteAgo
            THEN NoAttempt ELSE loginAttempts[ip]]

\* lines 462-468: the sweep of the Login Throttle Tracker
sweptLoginAttempts ==
    LET oneHourAgo == now - attemptRetention
    IN  [ip \in IPs |->
            IF loginAttempts[ip] # NoAttempt
               /\ loginAttempts[ip].lastAttempt < oneHourAgo
            THEN NoAttempt ELSE loginAttempts[ip]]

\* lines 454-468: the sweep of the two in-memory maps
ClMaps(p) ==
    /\ procs[p].pc = "cl_maps"
    /\ verificationCodes' = sweptVerificationCodes
    /\ loginAttempts' = sweptLoginAttempts
    /\ procs' = Return(p, Done(p, "Cleaned"))
    /\ UNCHANGED <<now, ticksLeft, callsLeft, nodeEnv, users, sessions, hist>>

----------------------------------------------------------------------------
\* changePassword

\* The current password is hashed in place of the new one
hashedNewPassword_ofCurrent(currentPassword, newPassword, salt) ==
    bcryptHash(currentPassword, salt)

\* line 487: bcrypt.hash(newPassword, 12)
hashedNewPassword(currentPassword, newPassword, salt) == bcryptHash(newPassword, salt)

\* Any current password is taken
currentPasswordValid_always(currentPassword, user) == TRUE

\* line 482: bcrypt.compare(currentPassword, user.passwordHash)
currentPasswordValid(currentPassword, user) ==
    bcryptCompare(currentPassword, user.passwordHash)

\* lines 475-487: the user lookup and the check of the current password
ChangePassword(p, userId, currentPassword, newPassword) ==
    /\ Accepts(p)
    /\ callsLeft > 0
    /\ callsLeft' = callsLeft - 1
    /\ LET call == [Idle EXCEPT !.op = "changePassword", !.userId = userId,
                                !.password = currentPassword,
                                !.newPassword = newPassword]
           user == getUser(userId)
       IN  procs' = Begin(p,
             IF user = NoUser
             THEN [call EXCEPT !.pc = "done", !.result = "UserNotFound"]
             ELSE IF ~ currentPasswordValid(currentPassword, user)
             THEN [call EXCEPT !.pc = "done", !.result = "PasswordIncorrect"]
             ELSE [call EXCEPT !.pc = "cp_update"])
    /\ UNCHANGED <<now, ticksLeft, nodeEnv, users, sessions, verificationCodes,
                   loginAttempts, hist>>

\* lines 487-493: the new hash is computed and written
CpUpdate(p) ==
    /\ procs[p].pc = "cp_update"
    /\ \E salt \in Salts :
         users' = [users EXCEPT ![procs[p].userId].passwordHash =
                      hashedNewPassword(procs[p].password, procs[p].newPassword, salt)]
    /\ changed' = [seq |-> callsLeft, userId |-> procs[p].userId,
                   old |-> procs[p].password, new |-> procs[p].newPassword]
    /\ procs' = Return(p, Done(p, "PasswordChanged"))
    /\ UNCHANGED <<now, ticksLeft, callsLeft, nodeEnv, sessions, verificationCodes,
                   loginAttempts, issued, minted, created, succeeded,
                   expiredReported, loggedOut>>

----------------------------------------------------------------------------
\* updateIPWhitelist, lines 501-510
UpdateIPWhitelist(p, userId, ips) ==
    /\ Accepts(p)
    /\ callsLeft > 0
    /\ callsLeft' = callsLeft - 1
    /\ users' = IF userId \in UserIds
                THEN [users EXCEPT ![userId].whitelistedIPs = ips]
                ELSE users
    /\ procs' = Begin(p,
          [Idle EXCEPT !.op = "updateIPWhitelist", !.userId = userId,
                       !.ips = ips, !.pc = "done", !.result = "WhitelistUpdated"])
    /\ UNCHANGED <<now, ticksLeft, nodeEnv, sessions, verificationCodes,
                   loginAttempts, hist>>

----------------------------------------------------------------------------
\* Exceptions of the stores

\* The exception leaves the operation
caught_rethrown(op) == "Exception"

\* The catch block of each operation: lines 288-294, 383-389, 425-428,
\* 440-445, 469-471, 494-497, 506-509.  cleanupExpiredData has no result:
\* its promise resolves without a value, as when the sweep went through.
caught(op) ==
    CASE op \in {"verifyCredentials", "verify2FACode"} -> "AuthServiceError"
      [] op \in {"verifySession", "requireAuth"} -> "SessionVerificationError"
      [] op = "logout" -> "LogoutError"
      [] op = "changePassword" -> "PasswordChangeError"
      [] op = "updateIPWhitelist" -> "WhitelistUpdateError"
      [] op = "cleanupExpiredData" -> "Cleaned"

\* The awaits on a store in the middle of a handler
StoreAwaits == {"vc_getUser", "v2_getUser", "v2_createSession", "vs_expire",
                "vs_getUser", "vs_deactivate", "cp_update"}

\* The operations whose first statement awaits a store
StoreFirst == {"verifySession", "logout", "changePassword", "updateIPWhitelist",
               "cleanupExpiredData"}

\* The store operation a handler is waiting for raises an exception
StoreThrows(p) ==
    /\ procs[p].pc \in StoreAwaits
    /\ procs' = Return(p, [Done(p, caught(procs[p].op)) EXCEPT !.raised = "store"])
    /\ UNCHANGED <<now, ticksLeft, callsLeft, nodeEnv, users, sessions,
                   verificationCodes, loginAttempts, hist>>

\* An operation is called and its first store operation raises an exception
FirstAwaitThrows(p, op, sessionToken, userId) ==
    /\ Accepts(p)
    /\ callsLeft > 0
    /\ callsLeft' = callsLeft - 1
    /\ op \in StoreFirst
    /\ procs' = Begin(p,
          [Idle EXCEPT !.op = op, !.token = sessionToken, !.userId = userId,
                       !.pc = "done", !.result = caught(op), !.raised = "store"])
    /\ UNCHANGED <<now, ticksLeft, nodeEnv, users, sessions, verificationCodes,
                   loginAttempts, hist>>

----------------------------------------------------------------------------
\* The HTTP routes

\* auth-routes, router.post('/login'), lines 296-310: the response to the
\* result of verifyCredentials
loginRoute(call) ==
    IF call.result = "CodeSent"
    THEN [status |-> 200, codeId |-> call.resultCodeId,
          expiresIn |-> codeExpiry \div 1000]
    ELSE [status |-> 401, codeId |-> 0, expiresIn |-> 0]

\* auth-routes, router.post('/verify'), lines 336-362: the response to the
\* result of verify2FACode
verifyRoute(call) ==
    IF call.result = "LoginSuccessful"
    THEN [status |-> 200, cookie |-> call.token,
          user |-> [id |-> call.resultUser.id, email |-> call.resultUser.email,
                    name |-> call.resultUser.name, role |-> call.resultUser.role]]
    ELSE [status |-> 401, cookie |-> EmptyToken, user |-> NoUser]

\* auth-routes, requireAuth, lines 443-454: a request to a route behind the
\* middleware; without a cookie it is answered at once, otherwise the
\* session is verified
RequireAuth(p, cookie) == VerifySessionAs(p, cookie, "requireAuth")

\* auth-routes, requireAuth, lines 447-468: 401, or next() to the handler
requireAuth(verification) ==
    IF verification = "Valid" THEN "Next" ELSE "Unauthorized"

\* bot-editor-routes, requireAuth, lines 13-23: 401 without a cookie,
\* otherwise next() to the handler
botEditorRequireAuth(cookie) ==
    IF cookie = EmptyToken THEN "Unauthorized" ELSE "Next"

\* bot-editor-routes: a request to a route behind its requireAuth
BotEditorRequest(p, cookie) ==
    /\ Accepts(p)
    /\ callsLeft > 0
    /\ callsLeft' = callsLeft - 1
    /\ procs' = Begin(p,
          [Idle EXCEPT !.op = "botEditorRoute", !.token = cookie, !.pc = "done",
                       !.result = botEditorRequireAuth(cookie)])
    /\ UNCHANGED <<now, ticksLeft, nodeEnv, users, sessions, verificationCodes,
                   loginAttempts, hist>>

\* ngrok-routes, lines 3-14: router.use(requireAuth) is commented out, the
\* request goes to the handler
NgrokRequest(p, cookie) ==
    /\ Accepts(p)
    /\ callsLeft > 0
    /\ callsLeft' = callsLeft - 1
    /\ procs' = Begin(p,
          [Idle EXCEPT !.op = "ngrokRoute", !.token = cookie, !.pc = "done",
                       !.result = "Next"])
    /\ UNCHANGED <<now, ticksLeft, nodeEnv, users, sessions, verificationCodes,
                   loginAttempts, hist>>

----------------------------------------------------------------------------
\* The Credential Store activates or deactivates a user
\* (DatabaseStorage.updateUser with {isActive})
SetUserActive(userId, active) ==
    /\ callsLeft > 0
    /\ callsLeft' = callsLeft - 1
    /\ users[userId].isActive # active
    /\ users' = [users EXCEPT ![userId].isActive = active]
    /\ UNCHANGED <<now, ticksLeft, nodeEnv, sessions, verificationCodes,
                   loginAttempts, procs, hist>>

\* The clock advances
Tick(d) ==
    /\ ticksLeft > 0
    /\ ticksLeft' = ticksLeft - 1
    /\ now' = now + d
    /\ UNCHANGED <<callsLeft, nodeEnv, users, sessions, verificationCodes,
                   loginAttempts, procs, hist>>

----------------------------------------------------------------------------
\* Specifications: the service under four request mixes

\* First-factor traffic against the Login Throttle Tracker
InitThrottle == Constructed /\ callsLeft = ThrottleCalls /\ ticksLeft = ThrottleTicks

NextThrottle ==
    \/ \E p \in OneAtATime, email \in Emails, password \in Passwords, ip \in IPs :
          VerifyCredentials(p, email, password, ip)
    \/ \E p \in OneAtATime : VcGetUser(p)
    \/ \E p \in OneAtATime : VcCompare(p)
    \/ \E p \in OneAtATime : VcSend(p)
    \/ \E d \in ShortJumps : Tick(d)

SpecThrottle == InitThrottle /\ [][NextThrottle]_vars

\* Two-step logins, with cleanup sweeps and a user being switched off and on
InitLogin ==
    /\ Constructed
    /\ nodeEnv = "production"
    /\ \A id \in UserIds : users[id].whitelistedIPs = {}
    /\ callsLeft = LoginCalls
    /\ ticksLeft = LoginTicks

NextLogin ==
    \/ \E p \in Procs : VerifyCredentials(p, "a@b.com", "secret123", "1.2.3.4")
    \/ \E p \in Procs : VcGetUser(p)
    \/ \E p \in Procs : VcCompare(p)
    \/ \E p \in Procs : VcSend(p)
    \/ \E p \in Procs, codeId \in SubmittedCodeIds, inputCode \in CodeValues,
          ip \in IPs :
          Verify2FACode(p, codeId, inputCode, ip)
    \/ \E p \in Procs : V2GetUser(p)
    \/ \E p \in Procs : V2CreateSession(p)
    \/ \E p \in Procs : V2Finish(p)
    \/ \E p \in Procs : CleanupExpiredData(p)
    \/ \E p \in Procs : ClMaps(p)
    \/ \E userId \in UserIds, active \in BOOLEAN : SetUserActive(userId, active)
    \/ \E d \in ShortJumps : Tick(d)

SpecLogin == InitLogin /\ [][NextLogin]_vars

\* Sessions being verified and ended
InitSession ==
    /\ Constructed
    /\ nodeEnv = "production"
    /\ \A id \in UserIds : users[id].whitelistedIPs = {}
    /\ callsLeft = SessionCalls
    /\ ticksLeft = SessionTicks

NextSession ==
    \/ \E p \in OneAtATime, ip \in IPs :
          VerifyCredentials(p, "a@b.com", "secret123", ip)
    \/ \E p \in OneAtATime : VcGetUser(p)
    \/ \E p \in OneAtATime : VcCompare(p)
    \/ \E p \in OneAtATime : VcSend(p)
    \/ \E p \in OneAtATime, codeId \in CodeIds, ip \in IPs :
          /\ issued[codeId] # NoCode
          /\ Verify2FACode(p, codeId, issued[codeId].code, ip)
    \/ \E p \in OneAtATime : V2GetUser(p)
    \/ \E p \in OneAtATime : V2CreateSession(p)
    \/ \E p \in OneAtATime : V2Finish(p)
    \/ \E p \in OneAtATime, sessionToken \in Tokens \cup {EmptyToken} :
          VerifySession(p, sessionToken)
    \/ \E p \in OneAtATime : VsExpire(p)
    \/ \E p \in OneAtATime : VsGetUser(p)
    \/ \E p \in OneAtATime : VsDeactivate(p)
    \/ \E p \in OneAtATime, sessionToken \in Tokens : Logout(p, sessionToken)
    \/ \E userId \in UserIds, active \in BOOLEAN : SetUserActive(userId, active)
    \/ \E d \in LongJumps : Tick(d)

SpecSession == InitSession /\ [][NextSession]_vars

\* Password changes next to first-factor logins
InitPassword == Constructed /\ callsLeft = PasswordCalls /\ ticksLeft = 0

NextPassword ==
    \/ \E p \in OneAtATime, userId \in UserIds \cup UnknownUserIds,
          currentPassword \in Passwords, newPassword \in Passwords :
          ChangePassword(p, userId, currentPassword, newPassword)
    \/ \E p \in OneAtATime : CpUpdate(p)
    \/ \E p \in OneAtATime, email \in Emails, password \in Passwords, ip \in IPs :
          VerifyCredentials(p, email, password, ip)
    \/ \E p \in OneAtATime : VcGetUser(p)
    \/ \E p \in OneAtATime : VcCompare(p)
    \/ \E p \in OneAtATime : VcSend(p)

SpecPassword == InitPassword /\ [][NextPassword]_vars

\* Sessions being verified and ended by handlers that overlap, all within
\* the lifetime of the sessions
InitLogout ==
    /\ Constructed
    /\ nodeEnv = "production"
    /\ \A id \in UserIds : users[id].whitelistedIPs = {}
    /\ callsLeft = LogoutCalls
    /\ ticksLeft = 0

NextLogout ==
    \/ \E p \in Procs : VerifyCredentials(p, "a@b.com", "secret123", "1.2.3.4")
    \/ \E p \in Procs : VcGetUser(p)
    \/ \E p \in Procs : VcCompare(p)
    \/ \E p \in Procs : VcSend(p)
    \/ \E p \in Procs, codeId \in CodeIds :
          /\ issued[codeId] # NoCode
          /\ Verify2FACode(p, codeId, issued[codeId].code, issued[codeId].ip)
    \/ \E p \in Procs : V2GetUser(p)
    \/ \E p \in Procs : V2CreateSession(p)
    \/ \E p \in Procs : V2Finish(p)
    \/ \E p \in Procs, sessionToken \in Tokens : VerifySession(p, sessionToken)
    \/ \E p \in Procs : VsGetUser(p)
    \/ \E p \in Procs, sessionToken \in Tokens : Logout(p, sessionToken)

SpecLogout == InitLogout /\ [][NextLogout]_vars

\* Codes being issued and redeemed, with failed first-factor attempts
InitRedeem ==
    /\ Constructed
    /\ nodeEnv = "production"
    /\ \A id \in UserIds : users[id].whitelistedIPs = {}
    /\ callsLeft = RedeemCalls
    /\ ticksLeft = RedeemTicks

NextRedeem ==
    \/ \E p \in OneAtATime, password \in Passwords, ip \in IPs :
          VerifyCredentials(p, "a@b.com", password, ip)
    \/ \E p \in OneAtATime : VcGetUser(p)
    \/ \E p \in OneAtATime : VcCompare(p)
    \/ \E p \in OneAtATime : VcSend(p)
    \/ \E p \in OneAtATime, codeId \in SubmittedCodeIds, inputCode \in CodeValues,
          ip \in IPs :
          Verify2FACode(p, codeId, inputCode, ip)
    \/ \E p \in OneAtATime : V2GetUser(p)
    \/ \E p \in OneAtATime : V2CreateSession(p)
    \/ \E p \in OneAtATime : V2Finish(p)
    \/ \E d \in ShortJumps : Tick(d)

SpecRedeem == InitRedeem /\ [][NextRedeem]_vars

\* First-factor attempts probing for accounts, from one address
InitProbe == Constructed /\ callsLeft = ProbeCalls /\ ticksLeft = ProbeTicks

NextProbe ==
    \/ \E p \in OneAtATime, email \in Emails, password \in Passwords :
          VerifyCredentials(p, email, password, "1.2.3.4")
    \/ \E p \in OneAtATime : VcGetUser(p)
    \/ \E p \in OneAtATime : VcCompare(p)
    \/ \E p \in OneAtATime : VcSend(p)
    \/ \E userId \in UserIds, active \in BOOLEAN : SetUserActive(userId, active)
    \/ \E d \in ShortJumps : Tick(d)

SpecProbe == InitProbe /\ [][NextProbe]_vars

\* Requests to the routes behind the session check
InitRoutes ==
    /\ Constructed
    /\ nodeEnv = "production"
    /\ \A id \in UserIds : users[id].whitelistedIPs = {}
    /\ callsLeft = RoutesCalls
    /\ ticksLeft = RoutesTicks

NextRoutes ==
    \/ \E p \in OneAtATime : VerifyCredentials(p, "a@b.com", "secret123", "1.2.3.4")
    \/ \E p \in OneAtATime : VcGetUser(p)
    \/ \E p \in OneAtATime : VcCompare(p)
    \/ \E p \in OneAtATime : VcSend(p)
    \/ \E p \in OneAtATime, codeId \in CodeIds :
          /\ issued[codeId] # NoCode
          /\ Verify2FACode(p, codeId, issued[codeId].code, issued[codeId].ip)
    \/ \E p \in OneAtATime : V2GetUser(p)
    \/ \E p \in OneAtATime : V2CreateSession(p)
    \/ \E p \in OneAtATime : V2Finish(p)
    \/ \E p \in OneAtATime, cookie \in Tokens \cup {EmptyToken} :
          RequireAuth(p, cookie)
    \/ \E p \in OneAtATime : VsExpire(p)
    \/ \E p \in OneAtATime : VsGetUser(p)
    \/ \E p \in OneAtATime : VsDeactivate(p)
    \/ \E p \in OneAtATime, cookie \in Tokens \cup {EmptyToken} :
          BotEditorRequest(p, cookie)
    \/ \E p \in OneAtATime, cookie \in Tokens \cup {EmptyToken} :
          NgrokRequest(p, cookie)
    \/ \E p \in OneAtATime, sessionToken \in Tokens : Logout(p, sessionToken)
    \/ \E userId \in UserIds, active \in BOOLEAN : SetUserActive(userId, active)
    \/ \E d \in LongJumps : Tick(d)

SpecRoutes == InitRoutes /\ [][NextRoutes]_vars

\* The operations of the service with stores that may raise exceptions
InitFaults ==
    /\ Constructed
    /\ nodeEnv = "production"
    /\ \A id \in UserIds : users[id].whitelistedIPs = {}
    /\ callsLeft = FaultsCalls
    /\ ticksLeft = FaultsTicks

NextFaults ==
    \/ \E p \in OneAtATime : VerifyCredentials(p, "a@b.com", "secret123", "1.2.3.4")
    \/ \E p \in OneAtATime : VcGetUser(p)
    \/ \E p \in OneAtATime : VcCompare(p)
    \/ \E p \in OneAtATime : VcSend(p)
    \/ \E p \in OneAtATime, codeId \in CodeIds :
          /\ issued[codeId] # NoCode
          /\ Verify2FACode(p, codeId, issued[codeId].code, issued[codeId].ip)
    \/ \E p \in OneAtATime : V2GetUser(p)
    \/ \E p \in OneAtATime : V2CreateSession(p)
    \/ \E p \in OneAtATime : V2Finish(p)
    \/ \E p \in OneAtATime : V2LogThrows(p)
    \/ \E p \in OneAtATime, sessionToken \in Tokens : VerifySession(p, sessionToken)
    \/ \E p \in OneAtATime : VsExpire(p)
    \/ \E p \in OneAtATime : VsGetUser(p)
    \/ \E p \in OneAtATime : VsDeactivate(p)
    \/ \E p \in OneAtATime, sessionToken \in Tokens : Logout(p, sessionToken)
    \/ \E p \in OneAtATime : ChangePassword(p, 1, "secret123", "hunter22")
    \/ \E p \in OneAtATime : CpUpdate(p)
    \/ \E p \in OneAtATime, userId \in UserIds :
          UpdateIPWhitelist(p, userId, {"1.2.3.4"})
    \/ \E p \in OneAtATime : CleanupExpiredData(p)
    \/ \E p \in OneAtATime : ClMaps(p)
    \/ \E p \in OneAtATime : StoreThrows(p)
    \/ \E p \in OneAtATime, op \in StoreFirst :
          FirstAwaitThrows(p, op, IF op \in {"verifySession", "logout"} THEN 1 ELSE 0,
                           IF op \in {"changePassword", "updateIPWhitelist"}
                           THEN 1 ELSE 0)
    \/ \E userId \in UserIds, active \in BOOLEAN : SetUserActive(userId, active)
    \/ Tick(sessionExpiry)

SpecFaults == InitFaults /\ [][NextFaults]_vars

\* Logins carried through to verified sessions, for a user who stays
\* active and has no allow-list
InitHappy ==
    /\ Constructed
    /\ \A id \in UserIds : users[id].whitelistedIPs = {}
    /\ callsLeft = HappyCalls
    /\ ticksLeft = HappyTicks

NextHappy ==
    \/ \E p \in OneAtATime, password \in Passwords :
          VerifyCredentials(p, "a@b.com", password, "1.2.3.4")
    \/ \E p \in OneAtATime : VcGetUser(p)
    \/ \E p \in OneAtATime : VcCompare(p)
    \/ \E p \in OneAtATime : VcSend(p)
    \/ \E p \in OneAtATime, codeId \in SubmittedCodeIds, ip \in IPs :
          Verify2FACode(p, codeId, "123456", ip)
    \/ \E p \in OneAtATime : V2GetUser(p)
    \/ \E p \in OneAtATime : V2CreateSession(p)
    \/ \E p \in OneAtATime : V2Finish(p)
    \/ \E p \in OneAtATime, sessionToken \in Tokens : VerifySession(p, sessionToken)
    \/ \E p \in OneAtATime : VsExpire(p)
    \/ \E p \in OneAtATime : VsGetUser(p)
    \/ \E p \in OneAtATime, sessionToken \in Tokens : Logout(p, sessionToken)
    \/ \E d \in MixedJumps : Tick(d)

SpecHappy == InitHappy /\ [][NextHappy]_vars

\* Failing logins from one address, overlapping in time
InitRace ==
    /\ Constructed
    /\ nodeEnv = "production"
    /\ \A id \in UserIds : users[id].whitelistedIPs = {"1.2.3.4"}
    /\ callsLeft = RaceCalls
    /\ ticksLeft = RaceTicks

NextRace ==
    \/ \E p \in Procs, email \in {"a@b.com", "x@y.com"}, password \in Passwords :
          VerifyCredentials(p, email, password, "127.0.0.1")
    \/ \E p \in Procs : VcGetUser(p)
    \/ \E p \in Procs : VcCompare(p)
    \/ Tick(60 * 1000)

SpecRace == InitRace /\ [][NextRace]_vars

\* Sessions of a user who is switched off and on again
InitRevive ==
    /\ Constructed
    /\ nodeEnv = "development"
    /\ \A id \in UserIds : users[id].whitelistedIPs = {}
    /\ callsLeft = ReviveCalls
    /\ ticksLeft = ReviveTicks

NextRevive ==
    \/ \E p \in OneAtATime : VerifyCredentials(p, "a@b.com", "secret123", "1.2.3.4")
    \/ \E p \in OneAtATime : VcGetUser(p)
    \/ \E p \in OneAtATime : VcCompare(p)
    \/ \E p \in OneAtATime : VcSend(p)
    \/ \E p \in OneAtATime, codeId \in CodeIds :
          /\ issued[codeId] # NoCode
          /\ Verify2FACode(p, codeId, issued[codeId].code, issued[codeId].ip)
    \/ \E p \in OneAtATime : V2GetUser(p)
    \/ \E p \in OneAtATime : V2CreateSession(p)
    \/ \E p \in OneAtATime : V2Finish(p)
    \/ \E p \in OneAtATime, sessionToken \in Tokens : VerifySession(p, sessionToken)
    \/ \E p \in OneAtATime : VsGetUser(p)
    \/ \E p \in OneAtATime : VsDeactivate(p)
    \/ \E userId \in UserIds, active \in BOOLEAN : SetUserActive(userId, active)
    \/ Tick(lockoutDuration)

SpecRevive == InitRevive /\ [][NextRevive]_vars

\* Cleanup sweeps next to logins, over minutes and hours
InitSweep ==
    /\ Constructed
    /\ nodeEnv = "development"
    /\ \A id \in UserIds : users[id].whitelistedIPs = {}
    /\ callsLeft = SweepCalls
    /\ ticksLeft = SweepTicks

NextSweep ==
    \/ \E p \in Procs, password \in Passwords :
          VerifyCredentials(p, "a@b.com", password, "1.2.3.4")
    \/ \E p \in Procs : VcGetUser(p)
    \/ \E p \in Procs : VcCompare(p)
    \/ \E p \in Procs : VcSend(p)
    \/ \E p \in Procs, codeId \in CodeIds :
          /\ issued[codeId] # NoCode
          /\ Verify2FACode(p, codeId, issued[codeId].code, issued[codeId].ip)
    \/ \E p \in Procs : V2GetUser(p)
    \/ \E p \in Procs : V2CreateSession(p)
    \/ \E p \in Procs : V2Finish(p)
    \/ \E p \in Procs : CleanupExpiredData(p)
    \/ \E p \in Procs : ClMaps(p)
    \/ \E d \in SweepJumps : Tick(d)

SpecSweep == InitSweep /\ [][NextSweep]_vars

\* First-factor logins over a Notification Channel that may not answer;
\* the event loop runs every handler whose awaited promise has settled
InitHang ==
    /\ Constructed
    /\ nodeEnv = "production"
    /\ callsLeft = HangCalls
    /\ ticksLeft = HangTicks

NextHang ==
    \/ \E p \in OneAtATime, email \in Emails, password \in Passwords, ip \in IPs :
          VerifyCredentials(p, email, password, ip)
    \/ \E p \in OneAtATime : VcGetUser(p)
    \/ \E p \in OneAtATime : VcCompare(p)
    \/ \E p \in OneAtATime : VcSend(p)
    \/ \E p \in OneAtATime : DispatchHangs(p)
    \/ \E d \in ShortJumps : Tick(d)

SpecHang ==
    /\ InitHang
    /\ [][NextHang]_vars
    /\ \A p \in OneAtATime :
          /\ WF_vars(VcGetUser(p))
          /\ WF_vars(VcCompare(p))
          /\ WF_vars(VcSend(p))

\* The service as constructed: no timer is started (lines 56-59), so that
\* cleanupExpiredData runs when a caller invokes it; the event loop runs
\* every handler whose awaited promise has settled
InitIdle ==
    /\ Constructed
    /\ nodeEnv = "development"
    /\ \A id \in UserIds : users[id].whitelistedIPs = {}
    /\ callsLeft = IdleCalls
    /\ ticksLeft = IdleTicks

NextIdle ==
    \/ \E p \in OneAtATime, password \in Passwords, ip \in IPs :
          VerifyCredentials(p, "a@b.com", password, ip)
    \/ \E p \in OneAtATime : VcGetUser(p)
    \/ \E p \in OneAtATime : VcCompare(p)
    \/ \E p \in OneAtATime : VcSend(p)
    \/ \E p \in OneAtATime : CleanupExpiredData(p)
    \/ \E p \in OneAtATime : ClMaps(p)
    \/ \E d \in SweepJumps : Tick(d)

SpecIdle ==
    /\ InitIdle
    /\ [][NextIdle]_vars
    /\ \A p \in OneAtATime :
          /\ WF_vars(VcGetUser(p))
          /\ WF_vars(VcCompare(p))
          /\ WF_vars(VcSend(p))
          /\ WF_vars(ClMaps(p))

\* Lockouts of one address, timed to the millisecond, next to sweeps
InitLockout ==
    /\ Constructed
    /\ nodeEnv = "development"
    /\ \A id \in UserIds : users[id].whitelistedIPs = {}
    /\ callsLeft = LockoutCalls
    /\ ticksLeft = LockoutTicks

NextLockout ==
    \/ \E p \in OneAtATime, password \in Passwords :
          VerifyCredentials(p, "a@b.com", password, "1.2.3.4")
    \/ \E p \in OneAtATime : VcGetUser(p)
    \/ \E p \in OneAtATime : VcCompare(p)
    \/ \E p \in OneAtATime : VcSend(p)
    \/ \E p \in OneAtATime : CleanupExpiredData(p)
    \/ \E p \in OneAtATime : ClMaps(p)
    \/ \E d \in LockoutJumps : Tick(d)

SpecLockout == InitLockout /\ [][NextLockout]_vars

\* A logged-in user whose password and allow-list are changed
InitProfile ==
    /\ Constructed
    /\ nodeEnv = "production"
    /\ \A id \in UserIds : users[id].whitelistedIPs = {}
    /\ callsLeft = ProfileCalls
    /\ ticksLeft = 0

NextProfile ==
    \/ \E p \in OneAtATime : VerifyCredentials(p, "a@b.com", "secret123", "127.0.0.1")
    \/ \E p \in OneAtATime : VcGetUser(p)
    \/ \E p \in OneAtATime : VcCompare(p)
    \/ \E p \in OneAtATime : VcSend(p)
    \/ \E p \in OneAtATime, codeId \in CodeIds :
          /\ issued[codeId] # NoCode
          /\ Verify2FACode(p, codeId, issued[codeId].code, issued[codeId].ip)
    \/ \E p \in OneAtATime : V2GetUser(p)
    \/ \E p \in OneAtATime : V2CreateSession(p)
    \/ \E p \in OneAtATime : V2Finish(p)
    \/ \E p \in OneAtATime, sessionToken \in Tokens : VerifySession(p, sessionToken)
    \/ \E p \in OneAtATime : VsGetUser(p)
    \/ \E p \in OneAtATime, currentPassword \in Passwords :
          ChangePassword(p, 1, currentPassword, "hunter22")
    \/ \E p \in OneAtATime : CpUpdate(p)
    \/ \E p \in OneAtATime, ips \in WhitelistChoices : UpdateIPWhitelist(p, 1, ips)

SpecProfile == InitProfile /\ [][NextProfile]_vars

----------------------------------------------------------------------------
\* The whole service
Init == Constructed /\ callsLeft = PasswordCalls /\ ticksLeft = LoginTicks

Next ==
    \/ NextThrottle
    \/ NextLogin
    \/ NextSession
    \/ NextPassword
    \/ NextLogout
    \/ NextRedeem
    \/ NextProbe
    \/ NextRoutes
    \/ NextFaults
    \/ NextHappy
    \/ NextRace
    \/ NextRevive
    \/ NextSweep
    \/ NextHang
    \/ NextIdle
    \/ NextLockout
    \/ NextProfile
    \/ \E p \in Procs, userId \in UserIds, ips \in WhitelistChoices :
          UpdateIPWhitelist(p, userId, ips)

Spec == Init /\ [][Next]_vars

----------------------------------------------------------------------------
\* Vocabulary of the properties

Returned(p, op) == procs[p].pc = "done" /\ procs[p].op = op

\* The call in slot p submits the code that was issued under its code id,
\* from the issuing address, and began after the code was issued and no
\* later than its expiry
CorrectSubmission(p) ==
    /\ procs[p].op = "verify2FACode"
    /\ issued[procs[p].codeId] # NoCode
    /\ procs[p].seq <= issued[procs[p].codeId].seq
    /\ procs[p].code = issued[procs[p].codeId].code
    /\ procs[p].ip = issued[procs[p].codeId].ip
    /\ procs[p].at <= issued[procs[p].codeId].expiresAt

\* The call in slot p began after the expiry of the code it submits
LateSubmission(p) ==
    /\ procs[p].op = "verify2FACode"
    /\ issued[procs[p].codeId] # NoCode
    /\ procs[p].at > issued[procs[p].codeId].expiresAt

----------------------------------------------------------------------------
\* C1: for every code id, whatever the interleaving of verify2FACode calls,
\* at most one call succeeds and at most one session is created.
C1_CodeAcceptedOnce ==
    \A c \in CodeIds : created[c] <= 1 /\ succeeded[c] <= 1

\* A second correct submission was turned away while the first one, which
\* has written its session, is still in flight.
C1_Witness ==
    \E p, q \in Procs :
        /\ Returned(p, "verify2FACode") /\ CorrectSubmission(p)
        /\ procs[p].result = "CodeAlreadyUsed"
        /\ procs[q].pc = "v2_log" /\ procs[q].codeId = procs[p].codeId
        /\ created[procs[p].codeId] = 1

\* C2 (as claimed): every verify2FACode call made after the expiry of an
\* issued code fails with CodeExpired.
C2_LateAlwaysCodeExpired ==
    \A p \in Procs :
        Returned(p, "verify2FACode") /\ LateSubmission(p)
            => procs[p].result = "CodeExpired"

\* C2 (amended): a verify2FACode call made after the expiry of an issued
\* code returns at once and writes no session; it fails with CodeExpired
\* when the entry is still in the cache, which it then deletes, and with
\* InvalidOrExpiredCode when the entry has already been removed.
C2_LateNeverAccepted ==
    [][\A p \in Procs :
          LET c == procs'[p].codeId
          IN  (/\ procs'[p].seq = callsLeft
               /\ procs'[p].op = "verify2FACode"
               /\ issued[c] # NoCode
               /\ now > issued[c].expiresAt)
              => /\ procs'[p].pc = "done"
                 /\ procs'[p].result = IF verificationCodes[c] # NoCode
                                       THEN "CodeExpired"
                                       ELSE "InvalidOrExpiredCode"
                 /\ verificationCodes'[c] = NoCode
                 /\ sessions' = sessions
                 /\ minted' = minted]_vars

\* A late submission was answered InvalidOrExpiredCode.
C2_Witness ==
    \E p \in Procs :
        /\ Returned(p, "verify2FACode") /\ LateSubmission(p)
        /\ procs[p].result = "InvalidOrExpiredCode"

\* C3 (as claimed): once a verify2FACode call has succeeded for a code id,
\* a re-submission of the correct code from the same address before the
\* expiry fails with CodeAlreadyUsed.
C3_ReplayAlreadyUsed ==
    \A p \in Procs :
        (/\ Returned(p, "verify2FACode") /\ CorrectSubmission(p)
         /\ procs[p].result # "LoginSuccessful"
         /\ succeeded[procs[p].codeId] >= 1)
            => procs[p].result = "CodeAlreadyUsed"

\* C3 (amended): a re-submission of the correct code from the same address
\* before the expiry fails with InvalidOrExpiredCode once a call has
\* succeeded for the code id (the successful call deleted the entry), and
\* with CodeAlreadyUsed only as long as no call has succeeded for it (the
\* first call is still in flight, or ended UserUnavailable).
C3_ReplayRejected ==
    \A p \in Procs :
        (/\ Returned(p, "verify2FACode") /\ CorrectSubmission(p)
         /\ procs[p].result \notin {"LoginSuccessful", "UserUnavailable"})
            => procs[p].result = IF succeeded[procs[p].codeId] >= 1
                                 THEN "InvalidOrExpiredCode"
                                 ELSE "CodeAlreadyUsed"

\* A replay after a completed login was answered InvalidOrExpiredCode.
C3_Witness ==
    \E p \in Procs :
        /\ Returned(p, "verify2FACode") /\ CorrectSubmission(p)
        /\ succeeded[procs[p].codeId] = 1
        /\ procs[p].result = "InvalidOrExpiredCode"

\* C6 (as claimed): whenever a session is written to the Session Store, its
\* owning user is active at that moment.
C6_NoSessionForInactiveUser ==
    [][\A t \in Tokens :
          (sessions[t] = NoSession /\ sessions'[t] # NoSession)
              => getUser(sessions'[t].userId).isActive]_vars

----------------------------------------------------------------------------
\* The throttle entry the call in slot p found: the address was locked out
\* (maxLoginAttempts failures, the last one less than the lockout window ago)
Locked(p) ==
    /\ procs[p].op = "verifyCredentials"
    /\ procs[p].seen.count >= maxLoginAttempts
    /\ procs[p].at - procs[p].seen.lastAttempt < lockoutDuration

\* ... or the lockout window had elapsed since the last failure
Elapsed(p) ==
    /\ procs[p].op = "verifyCredentials"
    /\ procs[p].seen.count >= maxLoginAttempts
    /\ procs[p].at - procs[p].seen.lastAttempt >= lockoutDuration

\* The call in slot p names an active user and carries the user's password
ValidCredentials(p) ==
    LET user == getUserByEmail(toLowerCase(procs[p].email))
    IN  /\ user # NoUser
        /\ user.isActive
        /\ \E salt \in Salts : user.passwordHash = bcryptHash(procs[p].password, salt)

\* C4: a verifyCredentials call from an address with maxLoginAttempts
\* recorded failures, the last one less than the lockout window ago, is
\* rejected with RateLimited in its first step, before any user lookup or
\* password comparison, whatever its credentials, and stores no code.
C4_LockedOutRejected ==
    \A p \in Procs :
        Locked(p) => /\ procs[p].pc = "done"
                     /\ procs[p].result = "RateLimited"
                     /\ procs[p].codeId = 0
                     /\ procs[p].countAfter = 0

\* Three failures were recorded for an address, and a call from it with
\* valid credentials was rejected.
C4_Witness ==
    \E p \in Procs :
        /\ Returned(p, "verifyCredentials") /\ Locked(p)
        /\ procs[p].seen.count = maxLoginAttempts
        /\ ValidCredentials(p)
        /\ procs[p].result = "RateLimited"

\* C5: a verifyCredentials call that finds its address locked out with the
\* lockout window elapsed resets the address's counter and is evaluated on
\* its credentials: invalid credentials or a refused address fail and leave
\* a fresh count of 1, valid credentials get their code issued.
C5_ElapsedEvaluated ==
    \A p \in Procs :
        Elapsed(p) =>
            /\ procs[p].pc \in {"vc_getUser", "vc_compare"}
                  => loginAttempts[procs[p].ip] = NoAttempt
            /\ procs[p].pc = "done" =>
                  IF ~ ValidCredentials(p)
                  THEN procs[p].result = "InvalidCredentials"
                       /\ procs[p].countAfter = 1
                  ELSE IF ~ isIPWhitelisted(getUserByEmail(toLowerCase(procs[p].email)),
                                            procs[p].ip)
                  THEN procs[p].result = "AccessDenied"
                       /\ procs[p].countAfter = 1
                  ELSE /\ procs[p].result \in {"CodeSent", "NotificationError"}
                       /\ procs[p].result = "NotificationError"
                             => nodeEnv # "development"
                       /\ procs[p].codeId # 0
                       /\ procs[p].countAfter = 0

\* After an elapsed lockout, a call with invalid credentials started a
\* fresh count of 1.
C5_Witness ==
    \E p \in Procs :
        /\ Returned(p, "verifyCredentials") /\ Elapsed(p)
        /\ procs[p].result = "InvalidCredentials"
        /\ procs[p].countAfter = 1
        /\ loginAttempts[procs[p].ip].count = 1

----------------------------------------------------------------------------
\* C7: verifySession never returns valid for a session whose expiry is
\* before the time at which the call looked at it, whatever the session's
\* active flag.
C7_ExpiredNeverValid ==
    \A p \in Procs :
        (Returned(p, "verifySession") /\ procs[p].result = "Valid")
            => ~ (procs[p].session.expiresAt < procs[p].at)

\* A session past its expiry was presented and reported expired.
C7_Witness ==
    \E p \in Procs :
        /\ Returned(p, "verifySession")
        /\ procs[p].result = "SessionExpired"
        /\ sessions[procs[p].token] # NoSession
        /\ sessions[procs[p].token].expiresAt < procs[p].at

\* C8: once verifySession has reported a token expired, the session is not
\* active in the Session Store (its flag is false, or the row is gone), and
\* every verifySession call on the token that begins afterwards returns
\* invalid at once, by the flag or the missing row, with no further write.
C8_ExpiryWrittenBack ==
    \A t \in Tokens :
        expiredReported[t] >= 0 =>
            /\ sessions[t] = NoSession \/ ~ sessions[t].isActive
            /\ \A p \in Procs :
                  (/\ procs[p].op = "verifySession"
                   /\ procs[p].token = t
                   /\ procs[p].seq <= expiredReported[t])
                      => /\ procs[p].pc = "done"
                         /\ procs[p].result \in {"SessionInactive", "InvalidToken"}

\* A second verifySession on a token already reported expired found the
\* session inactive.
C8_Witness ==
    \E p \in Procs :
        /\ Returned(p, "verifySession")
        /\ procs[p].token \in Tokens
        /\ expiredReported[procs[p].token] >= 0
        /\ procs[p].seq <= expiredReported[procs[p].token]
        /\ procs[p].result = "SessionInactive"
        /\ ~ sessions[procs[p].token].isActive

\* C9: a changePassword call whose currentPassword does not match the
\* stored hash fails, and leaves the user's stored hash as it was.
C9_WrongCurrentPasswordRejected ==
    [][\A p \in Procs :
          LET userId == procs'[p].userId
          IN  (/\ procs'[p].seq = callsLeft
               /\ procs'[p].op = "changePassword"
               /\ userId \in UserIds
               /\ \A salt \in Salts :
                     users[userId].passwordHash
                        # bcryptHash(procs'[p].password, salt))
              => /\ procs'[p].pc = "done"
                 /\ procs'[p].result = "PasswordIncorrect"
                 /\ users' = users]_vars

\* A changePassword call with a wrong current password was turned away.
C9_Witness ==
    \E p \in Procs :
        /\ Returned(p, "changePassword")
        /\ procs[p].result = "PasswordIncorrect"
        /\ \A salt \in Salts :
              users[procs[p].userId].passwordHash
                 # bcryptHash(procs[p].password, salt)

\* The call in slot p began after the latest successful changePassword,
\* which replaced the password by a different one, names that user, and
\* gets as far as the password check (address not locked out, user active)
AfterChange(p) ==
    /\ Returned(p, "verifyCredentials")
    /\ changed # NoChange
    /\ procs[p].seq <= changed.seq
    /\ changed.old # changed.new
    /\ getUserByEmail(toLowerCase(procs[p].email)) = getUser(changed.userId)
    /\ getUser(changed.userId).isActive
    /\ ~ Locked(p)

\* C10: after changePassword has succeeded with a new password different
\* from the old one, verifyCredentials with the old password fails with
\* InvalidCredentials, and with the new password it passes the password
\* check.
C10_OldPasswordRetired ==
    \A p \in Procs :
        AfterChange(p) =>
            /\ procs[p].password = changed.old
                  => procs[p].result = "InvalidCredentials"
            /\ procs[p].password = changed.new
                  => procs[p].result \in {"CodeSent", "NotificationError",
                                          "AccessDenied"}

\* After a password change, a login with the old password was refused.
C10_Witness ==
    \E p \in Procs :
        /\ AfterChange(p)
        /\ procs[p].password = changed.old
        /\ procs[p].result = "InvalidCredentials"

----------------------------------------------------------------------------
\* C11: once logout has reported success for a token, the token has no row
\* in the Session Store ever after, and every verifySession call on it that
\* begins afterwards returns invalid, whatever else is in flight.
C11_LoggedOutStaysInvalid ==
    \A t \in Tokens :
        loggedOut[t] >= 0 =>
            /\ sessions[t] = NoSession
            /\ \A p \in Procs :
                  (/\ procs[p].op = "verifySession"
                   /\ procs[p].token = t
                   /\ procs[p].seq < loggedOut[t])
                      => /\ procs[p].pc = "done"
                         /\ procs[p].result = "InvalidToken"

\* A session was created by a login and ended by logout, and a verifySession
\* on its token afterwards was turned away.
C11_Witness ==
    \E p \in Procs :
        /\ Returned(p, "verifySession")
        /\ procs[p].token \in Tokens
        /\ minted[procs[p].token] # 0
        /\ loggedOut[procs[p].token] >= 0
        /\ procs[p].seq < loggedOut[procs[p].token]
        /\ procs[p].result = "InvalidToken"

\* C12: logout reports success exactly when the Session Store holds a row
\* for the token at the time of the call; a logout of a token that was
\* already logged out, or of a token that never existed, reports that no
\* session was found and changes nothing.
C12_LogoutReportsFound ==
    [][\A p \in Procs :
          LET t == procs'[p].token
          IN  (procs'[p].seq = callsLeft /\ procs'[p].op = "logout")
              => /\ procs'[p].pc = "done"
                 /\ procs'[p].result =
                       IF sessions[t] # NoSession THEN "LoggedOut"
                       ELSE "SessionNotFound"
                 /\ loggedOut[t] >= 0 => procs'[p].result = "SessionNotFound"
                 /\ procs'[p].result = "SessionNotFound"
                       => UNCHANGED <<sessions, users, verificationCodes,
                                      loginAttempts>>]_vars

\* A second logout of a token found no session.
C12_Witness ==
    \E p \in Procs :
        /\ Returned(p, "logout")
        /\ loggedOut[procs[p].token] >= 0
        /\ procs[p].seq < loggedOut[procs[p].token]
        /\ procs[p].result = "SessionNotFound"

----------------------------------------------------------------------------
\* C13 (as claimed): a successful verify2FACode leaves no failure counter for
\* its address, and a successful verifyCredentials leaves the failure counter
\* of its address as the call found it.
C13_FirstFactorKeepsCounter ==
    \A p \in Procs :
        /\ (Returned(p, "verify2FACode") /\ procs[p].result = "LoginSuccessful")
              => loginAttempts[procs[p].ip] = NoAttempt
        /\ (Returned(p, "verifyCredentials") /\ procs[p].result = "CodeSent")
              => loginAttempts[procs[p].ip] = procs[p].seen

\* C13 (amended): a successful verify2FACode leaves no failure counter for
\* its address; a successful verifyCredentials leaves the failure counter of
\* its address as the call found it, unless it found the counter at the
\* maximum with the lockout window elapsed, in which case the counter is
\* gone.
C13_CounterClearedByFullLogin ==
    \A p \in Procs :
        /\ (Returned(p, "verify2FACode") /\ procs[p].result = "LoginSuccessful")
              => loginAttempts[procs[p].ip] = NoAttempt
        /\ (Returned(p, "verifyCredentials") /\ procs[p].result = "CodeSent")
              => loginAttempts[procs[p].ip] =
                    IF Elapsed(p) THEN NoAttempt ELSE procs[p].seen

\* A login completed from an address that had failures on record.
C13_Witness ==
    \E p \in Procs :
        /\ Returned(p, "verify2FACode")
        /\ procs[p].result = "LoginSuccessful"
        /\ procs[p].seen.count > 0
        /\ loginAttempts[procs[p].ip] = NoAttempt

----------------------------------------------------------------------------
\* The call that begins in this step in slot p submits a code for an entry
\* that is in the cache, not expired and not used
Outstanding(p) ==
    LET c == procs'[p].codeId
    IN  /\ procs'[p].seq = callsLeft
        /\ procs'[p].op = "verify2FACode"
        /\ verificationCodes[c] # NoCode
        /\ ~ (now > verificationCodes[c].expiresAt)
        /\ ~ verificationCodes[c].used

\* C14: a verify2FACode call for an outstanding code from another address
\* than the one recorded at issuance fails with SecurityMismatch whatever
\* code it supplies, writes no session and leaves the cache as it was; the
\* correct code submitted from the issuing address is then still taken.
C14_OtherAddressRefused ==
    [][\A p \in Procs :
          LET c == procs'[p].codeId
          IN  Outstanding(p) =>
                /\ procs'[p].ip # verificationCodes[c].ip
                      => /\ procs'[p].pc = "done"
                         /\ procs'[p].result = "SecurityMismatch"
                         /\ UNCHANGED <<verificationCodes, sessions, minted,
                                        loginAttempts>>
                /\ (/\ procs'[p].ip = verificationCodes[c].ip
                    /\ procs'[p].code = verificationCodes[c].code)
                      => /\ procs'[p].pc = "v2_getUser"
                         /\ verificationCodes'[c].used]_vars

\* The correct code was submitted from another address and refused, and the
\* entry is still in the cache, unused.
C14_Witness ==
    \E p \in Procs :
        /\ Returned(p, "verify2FACode")
        /\ procs[p].result = "SecurityMismatch"
        /\ verificationCodes[procs[p].codeId] # NoCode
        /\ procs[p].code = verificationCodes[procs[p].codeId].code
        /\ procs[p].ip # verificationCodes[procs[p].codeId].ip
        /\ ~ verificationCodes[procs[p].codeId].used
        /\ now <= verificationCodes[procs[p].codeId].expiresAt

----------------------------------------------------------------------------
\* C15: the step in which a verifyCredentials call stores its code puts
\* exactly one entry into the cache, unused, under an identifier under which
\* nothing was ever issued, and changes no other entry; no two calls hold
\* the same identifier, and every entry in the cache is the one that was
\* issued under its identifier.
C15_OneFreshEntryPerLogin ==
    [][/\ \A p \in Procs :
            (procs[p].pc = "vc_compare" /\ procs'[p].pc = "vc_send") =>
                LET c == procs'[p].codeId
                IN  /\ c \in CodeIds
                    /\ issued[c] = NoCode
                    /\ verificationCodes[c] = NoCode
                    /\ verificationCodes'[c] # NoCode
                    /\ ~ verificationCodes'[c].used
                    /\ \A d \in CodeIds \ {c} :
                          verificationCodes'[d] = verificationCodes[d]
       /\ \A p, q \in Procs :
            (/\ p # q
             /\ procs'[p].op = "verifyCredentials"
             /\ procs'[q].op = "verifyCredentials"
             /\ procs'[p].codeId # 0)
                => procs'[p].codeId # procs'[q].codeId
       /\ \A c \in CodeIds :
            verificationCodes'[c] # NoCode =>
                /\ verificationCodes'[c].code = issued'[c].code
                /\ verificationCodes'[c].email = issued'[c].email
                /\ verificationCodes'[c].ip = issued'[c].ip
                /\ verificationCodes'[c].expiresAt = issued'[c].expiresAt]_vars

\* Two codes were issued to the same user; one has been redeemed and the
\* other is still in the cache, unused.
C15_Witness ==
    \E c, d \in CodeIds :
        /\ c # d
        /\ succeeded[c] = 1
        /\ verificationCodes[d] # NoCode
        /\ ~ verificationCodes[d].used
        /\ issued[c].email = issued[d].email

----------------------------------------------------------------------------
\* Slot p takes a step of a verifySession call: the call begins, or one of
\* its awaited store operations resolves
VerifySessionStep(p) ==
    \/ procs'[p].seq = callsLeft /\ procs'[p].op = "verifySession"
    \/ /\ procs[p].op = "verifySession"
       /\ procs[p].pc \notin {"idle", "done"}
       /\ procs'[p] # procs[p]

\* C16: no step of a verifySession call changes the Verification Code Cache,
\* the Login Throttle Tracker or the users; a step that changes the Session
\* Store only sets active to false on the session of the call's token and
\* ends the call as expired or as owned by an unavailable user, so a call
\* that returns valid has written nothing.
C16_VerifySessionWrites ==
    [][\A p \in Procs :
          VerifySessionStep(p) =>
            /\ UNCHANGED <<verificationCodes, loginAttempts, users>>
            /\ sessions' # sessions =>
                  /\ sessions' = [sessions EXCEPT ![procs[p].token].isActive = FALSE]
                  /\ procs'[p].pc = "done"
                  /\ procs'[p].result \in {"SessionExpired", "UserInactive"}
            /\ procs'[p].result = "Valid" => sessions' = sessions]_vars

\* A verifySession call returned valid, and the session it read is in the
\* Session Store as it was.
C16_Witness ==
    \E p \in Procs :
        /\ Returned(p, "verifySession")
        /\ procs[p].result = "Valid"
        /\ sessions[procs[p].token] = procs[p].session
        /\ sessions[procs[p].token].isActive

----------------------------------------------------------------------------
\* The call in slot p is refused in this step with the answer for invalid
\* credentials, and one failure is added to its address's counter
RefusedAlike(p) ==
    /\ procs'[p].pc = "done"
    /\ procs'[p].result = "InvalidCredentials"
    /\ procs'[p].codeId = 0
    /\ loginAttempts' =
          [loginAttempts EXCEPT ![procs[p].ip] =
              [count |-> loginAttempts[procs[p].ip].count + 1,
               lastAttempt |-> now]]
    /\ UNCHANGED <<verificationCodes, users, sessions>>

\* C17: a verifyCredentials call that names an unknown e-mail, or an
\* inactive user, or an active user with a wrong password gets the same
\* answer, InvalidCredentials, and in each case exactly one failure is added
\* to the counter of its address.
C17_RefusalsIndistinguishable ==
    [][\A p \in Procs :
          LET user == getUserByEmail(toLowerCase(procs[p].email))
          IN  /\ (procs[p].pc = "vc_getUser" /\ procs'[p] # procs[p]
                  /\ user = NoUser)
                     => RefusedAlike(p)
              /\ (procs[p].pc = "vc_getUser" /\ procs'[p] # procs[p]
                  /\ user # NoUser /\ ~ user.isActive)
                     => RefusedAlike(p)
              /\ (procs[p].pc = "vc_compare" /\ procs'[p] # procs[p]
                  /\ \A salt \in Salts :
                        procs[p].user.passwordHash
                           # bcryptHash(procs[p].password, salt))
                     => RefusedAlike(p)]_vars

\* After a refusal already on record for the address, a call with the right
\* password for a user who is switched off was refused in the same way.
C17_Witness ==
    \E p \in Procs :
        /\ Returned(p, "verifyCredentials")
        /\ procs[p].result = "InvalidCredentials"
        /\ procs[p].seen.count = 1
        /\ procs[p].countAfter = 2
        /\ getUserByEmail(toLowerCase(procs[p].email)) # NoUser
        /\ ~ getUserByEmail(toLowerCase(procs[p].email)).isActive
        /\ bcryptCompare(procs[p].password,
                         getUserByEmail(toLowerCase(procs[p].email)).passwordHash)

----------------------------------------------------------------------------
\* C18: a verifyCredentials call whose code was stored and whose dispatch
\* failed fails with NotificationError and hands out no code id when the
\* service does not run in development mode; in development mode, and
\* whenever the dispatch went through, it succeeds and hands out the id of
\* the code it stored.
C18_DispatchFailureReported ==
    \A p \in Procs :
        (Returned(p, "verifyCredentials") /\ procs[p].codeId # 0) =>
            IF nodeEnv # "development" /\ ~ procs[p].delivered
            THEN /\ procs[p].result = "NotificationError"
                 /\ procs[p].resultCodeId = 0
            ELSE /\ procs[p].result = "CodeSent"
                 /\ procs[p].resultCodeId = procs[p].codeId

\* Outside development mode a dispatch failed: the call failed, and the
\* code it had stored is in the cache.
C18_Witness ==
    \E p \in Procs :
        /\ Returned(p, "verifyCredentials")
        /\ nodeEnv # "development"
        /\ procs[p].codeId # 0
        /\ ~ procs[p].delivered
        /\ procs[p].result = "NotificationError"
        /\ procs[p].resultCodeId = 0
        /\ verificationCodes[procs[p].codeId] # NoCode

----------------------------------------------------------------------------
\* What verifySession reports for a token in the current state
SessionValid(token) ==
    /\ token \in Tokens
    /\ sessions[token] # NoSession
    /\ sessions[token].isActive
    /\ ~ sessionExpired(sessions[token])
    /\ getUser(sessions[token].userId) # NoUser
    /\ getUser(sessions[token].userId).isActive

\* C19 (as claimed): a request to a protected route that carries no session
\* cookie, or a token that verifySession reports invalid, is answered 401
\* and does not reach the route's handler.
C19_ProtectedRoutesReject ==
    [][\A p \in Procs :
          /\ (/\ procs'[p].seq = callsLeft
              /\ procs'[p].op \in {"botEditorRoute", "ngrokRoute"}
              /\ ~ SessionValid(procs'[p].token))
                 => procs'[p].result = "Unauthorized"
          /\ (/\ procs'[p].op = "requireAuth"
              /\ procs'[p].pc = "done"
              /\ procs'[p].result # "Valid")
                 => requireAuth(procs'[p].result) = "Unauthorized"]_vars

\* C20 (as claimed): the login endpoint answers 429 when verifyCredentials
\* rejects the request as RateLimited, 200 with the code id and the expiry
\* in seconds when it succeeds, and 401 for every other failure.
C20_LoginStatusCodes ==
    \A p \in Procs :
        Returned(p, "verifyCredentials") =>
            LET response == loginRoute(procs[p])
            IN  /\ response.status =
                      IF procs[p].result = "RateLimited" THEN 429
                      ELSE IF procs[p].result = "CodeSent" THEN 200
                      ELSE 401
                /\ procs[p].result = "CodeSent"
                      => /\ response.codeId = procs[p].codeId
                         /\ response.expiresIn * 1000 = codeExpiry

----------------------------------------------------------------------------
\* The fields of a user that may be shown
PublicProfile == {"id", "email", "name", "role"}

\* C21 (as claimed): the result of a successful verify2FACode, and the
\* response of the verify endpoint made from it, carry the session token
\* and of the user only the public profile, never the password hash.
C21_OnlyPublicProfileReturned ==
    \A p \in Procs :
        (Returned(p, "verify2FACode") /\ procs[p].result = "LoginSuccessful")
            => /\ procs[p].token \in Tokens
               /\ DOMAIN procs[p].resultUser = PublicProfile
               /\ verifyRoute(procs[p]).cookie = procs[p].token
               /\ DOMAIN verifyRoute(procs[p]).user = PublicProfile

\* The failure results of the catch blocks
StructuredFailures == {"AuthServiceError", "SessionVerificationError", "LogoutError",
                       "PasswordChangeError", "WhitelistUpdateError"}

\* C22 (as claimed): every operation in which a store raised an exception
\* returns a structured failure result, cleanupExpiredData included.
C22_EveryFaultReturnsFailure ==
    \A p \in Procs :
        (procs[p].pc = "done" /\ procs[p].raised = "store")
            => procs[p].result \in StructuredFailures

\* C22 (amended): no operation lets an exception of a store or of the
\* activity log leave it.  When a store raised, the six operations that have
\* a result return the failure result of their catch block, and
\* cleanupExpiredData, which has no result, completes as after a sweep that
\* went through.  When only the activity log raised, the operation returns
\* what it returns otherwise.
C22_FaultsCaught ==
    \A p \in Procs :
        procs[p].pc = "done" =>
            /\ procs[p].result # "Exception"
            /\ (procs[p].raised = "store" /\ procs[p].op # "cleanupExpiredData")
                   => /\ procs[p].result \in StructuredFailures
                      /\ procs[p].resultUser = NoUser
            /\ (procs[p].raised = "store" /\ procs[p].op = "cleanupExpiredData")
                   => procs[p].result = "Cleaned"
            /\ procs[p].raised = "log" => procs[p].result = "LoginSuccessful"

\* A store raised while verify2FACode was creating the session
C22_Witness ==
    \E p \in Procs :
        /\ Returned(p, "verify2FACode")
        /\ procs[p].raised = "store"
        /\ procs[p].seen # NoCode
        /\ verificationCodes[procs[p].codeId] # NoCode
        /\ verificationCodes[procs[p].codeId].used
\* The code of the call in slot p reached the user: the channel delivered
\* it, or the service runs in development mode, where it is only logged
Dispatched(p) == procs[p].delivered \/ nodeEnv = "development"

\* The session stored under a token was created by a completed login
\* and has not been ended
Established(token) ==
    /\ token \in Tokens
    /\ minted[token] # 0
    /\ created[minted[token]] > 0
    /\ sessions[token] # NoSession

\* What verifyCredentials hands out for a login that is let through
CodeHandedOut(p) ==
    /\ procs[p].result = "CodeSent"
    /\ procs[p].resultCodeId \in CodeIds
    /\ loginRoute(procs[p]).expiresIn = 300
    /\ issued[procs[p].resultCodeId].ip = procs[p].ip
    /\ issued[procs[p].resultCodeId].expiresAt - procs[p].at >= 300 * 1000

\* What verify2FACode and verifySession do on the way of a login
SecondFactorAndSession ==
    \A p \in Procs :
        /\ (Returned(p, "verify2FACode") /\ CorrectSubmission(p))
              => \/ /\ procs[p].result = "LoginSuccessful"
                    /\ procs[p].token \in Tokens
                    /\ minted[procs[p].token] = procs[p].codeId
                    /\ sessions[procs[p].token] # NoSession
                    /\ sessions[procs[p].token].isActive
                    /\ sessions[procs[p].token].userId = procs[p].resultUser.id
                    /\ procs[p].resultUser.email = issued[procs[p].codeId].email
                 \/ /\ procs[p].result = "InvalidOrExpiredCode"
                    /\ succeeded[procs[p].codeId] > 0
        /\ (/\ Returned(p, "verifySession")
            /\ Established(procs[p].token)
            /\ procs[p].at <= sessions[procs[p].token].expiresAt)
              => /\ procs[p].result = "Valid"
                 /\ procs[p].resultUser = getUser(sessions[procs[p].token].userId)
                 /\ procs[p].resultUser.email = issued[minted[procs[p].token]].email
                 /\ sessions[procs[p].token].isActive

\* A session that a login created is in the store until a logout ends it
SessionKept ==
    \A token \in Tokens :
        (minted[token] # 0 /\ created[minted[token]] > 0 /\ loggedOut[token] = -1)
            => sessions[token] # NoSession

\* C23 (as claimed): for an active user without allow-list, verifyCredentials
\* with the right password from an address that is not locked out returns a
\* code id with an expiry of 300 seconds; the first verify2FACode with that
\* id, the issued code and the same address before the expiry returns a
\* session token; and verifySession on that token reports valid with that
\* user while the session has not expired and no logout occurred.
C23_HappyPath ==
    /\ \A p \in Procs :
          (Returned(p, "verifyCredentials") /\ ValidCredentials(p) /\ ~ Locked(p))
              => CodeHandedOut(p)
    /\ SecondFactorAndSession
    /\ SessionKept

\* C23 (amended): the same, for a login whose code the Notification Channel
\* delivered (or in development mode); when the dispatch fails,
\* verifyCredentials returns no code id although the code is stored.
C23_HappyPathWhenDispatched ==
    /\ \A p \in Procs :
          /\ (/\ Returned(p, "verifyCredentials")
              /\ ValidCredentials(p)
              /\ ~ Locked(p)
              /\ Dispatched(p))
                 => CodeHandedOut(p)
          /\ (/\ Returned(p, "verifyCredentials")
              /\ ValidCredentials(p)
              /\ ~ Locked(p)
              /\ ~ Dispatched(p))
                 => /\ procs[p].result = "NotificationError"
                    /\ procs[p].resultCodeId = 0
    /\ SecondFactorAndSession
    /\ SessionKept

\* A session is reported valid for the user who logged in, some time after
\* the login
C23_Witness ==
    \E p \in Procs :
        /\ Returned(p, "verifySession")
        /\ procs[p].result = "Valid"
        /\ procs[p].at > 0
        /\ Established(procs[p].token)
        /\ procs[p].resultUser.email = "a@b.com"
        /\ loggedOut[procs[p].token] = -1
\* The outcomes of the checks of verify2FACode on the submitted code
CodeCheckFailures == {"InvalidOrExpiredCode", "CodeExpired", "CodeAlreadyUsed",
                      "SecurityMismatch", "InvalidCode"}

\* C24: a verify2FACode call that fails a check on the code leaves the Login
\* Throttle Tracker as it was, so wrong guesses never lock out the address;
\* it leaves the cache as it was too, except that an entry past its expiry
\* is deleted: a wrong guess never invalidates a code before its expiry.
C24_FailedGuessLeavesThrottle ==
    [][\A p \in Procs :
          (/\ procs'[p].seq = callsLeft
           /\ procs'[p].op = "verify2FACode"
           /\ procs'[p].pc = "done"
           /\ procs'[p].result \in CodeCheckFailures)
              => /\ loginAttempts' = loginAttempts
                 /\ \A ip \in IPs : checkLoginAttempts(ip)' = checkLoginAttempts(ip)
                 /\ \A c \in CodeIds :
                       verificationCodes'[c] # verificationCodes[c]
                           => /\ c = procs'[p].codeId
                              /\ procs'[p].result = "CodeExpired"
                              /\ now > verificationCodes[c].expiresAt
                              /\ verificationCodes'[c] = NoCode]_vars

\* A wrong guess from the issuing address was refused and the code is still
\* in the cache, unused, while the address has no failure on record
C24_Witness ==
    \E p \in Procs :
        /\ Returned(p, "verify2FACode")
        /\ procs[p].result = "InvalidCode"
        /\ verificationCodes[procs[p].codeId] # NoCode
        /\ ~ verificationCodes[procs[p].codeId].used
        /\ verificationCodes[procs[p].codeId].ip = procs[p].ip
        /\ loginAttempts[procs[p].ip] = NoAttempt
\* The verifyCredentials calls that have returned so far, when every call
\* of the behaviour is a verifyCredentials call
ReturnedLogins ==
    (RaceCalls - callsLeft) - InFlight({"vc_getUser", "vc_compare", "vc_send"})

\* The call in slot p fails on credentials or allow-list in this step
FailsNow(p) ==
    /\ procs[p].pc \in {"vc_getUser", "vc_compare"}
    /\ procs'[p].pc = "done"
    /\ procs'[p].result \in {"InvalidCredentials", "AccessDenied"}

\* C25: failure recording has no lost updates.  Each verifyCredentials call
\* that fails on credentials or allow-list adds exactly one to the failure
\* count of its address and sets the last-failure time to the time of that
\* failure, however the calls from the address overlap; no other step
\* changes the tracker, so after k failing calls without a reset the count
\* has grown by exactly k.
C25_NoLostFailure ==
    [][/\ \A p \in Procs :
            FailsNow(p) =>
               /\ loginAttempts'[procs[p].ip].count
                     = loginAttempts[procs[p].ip].count + 1
               /\ loginAttempts'[procs[p].ip].lastAttempt = now
               /\ procs'[p].countAfter = loginAttempts'[procs[p].ip].count
               /\ \A ip \in IPs \ {procs[p].ip} :
                     loginAttempts'[ip] = loginAttempts[ip]
       /\ (\A p \in Procs : ~ FailsNow(p)) => loginAttempts' = loginAttempts
       /\ loginAttempts'["127.0.0.1"].count <= ReturnedLogins'
       /\ loginAttempts'["127.0.0.1"].count < maxLoginAttempts
             => loginAttempts'["127.0.0.1"].count = ReturnedLogins']_vars

\* Two failing calls from the address overlapped and both are counted, the
\* second one at a later time than the first
C25_Witness ==
    \E p \in Procs :
        /\ Returned(p, "verifyCredentials")
        /\ procs[p].result = "AccessDenied"
        /\ procs[p].seen.count = 0
        /\ procs[p].countAfter = 2
        /\ loginAttempts[procs[p].ip].count = 2
        /\ loginAttempts[procs[p].ip].lastAttempt > procs[p].at
\* C26: verify2FACode tests, in this order, that the entry exists, that it
\* has not expired, that it is not used, that the source address is the
\* issuing one and that the code is the issued one, and reports the first
\* test that fails whatever the later ones would say; an expired entry is
\* deleted, every other refused submission leaves the entry as it was.
C26_FirstFailingCheckReported ==
    [][\A p \in Procs :
          (procs'[p].seq = callsLeft /\ procs'[p].op = "verify2FACode")
              => LET entry == verificationCodes[procs'[p].codeId]
                     result == procs'[p].result
                 IN  IF entry = NoCode
                     THEN result = "InvalidOrExpiredCode"
                     ELSE IF now > entry.expiresAt
                     THEN /\ result = "CodeExpired"
                          /\ verificationCodes'[procs'[p].codeId] = NoCode
                     ELSE IF entry.used
                     THEN /\ result = "CodeAlreadyUsed"
                          /\ verificationCodes'[procs'[p].codeId] = entry
                     ELSE IF entry.ip # procs'[p].ip
                     THEN /\ result = "SecurityMismatch"
                          /\ verificationCodes'[procs'[p].codeId] = entry
                     ELSE IF entry.code # procs'[p].code
                     THEN /\ result = "InvalidCode"
                          /\ verificationCodes'[procs'[p].codeId] = entry
                     ELSE /\ procs'[p].pc = "v2_getUser"
                          /\ verificationCodes'[procs'[p].codeId].used]_vars

\* An expired entry was submitted from another address with a wrong code:
\* the call reported CodeExpired and the entry is gone
C26_Witness ==
    \E p \in Procs :
        /\ Returned(p, "verify2FACode")
        /\ procs[p].result = "CodeExpired"
        /\ issued[procs[p].codeId] # NoCode
        /\ procs[p].ip # issued[procs[p].codeId].ip
        /\ procs[p].code # issued[procs[p].codeId].code
        /\ procs[p].at > issued[procs[p].codeId].expiresAt
        /\ verificationCodes[procs[p].codeId] = NoCode
\* The call in slot p names a user of the store, active or not
KnownUser(p) == getUserByEmail(toLowerCase(procs[p].email)) # NoUser

\* The address of the call in slot p passes the allow-list of the user it names
OnAllowList(p) ==
    isIPWhitelisted(getUserByEmail(toLowerCase(procs[p].email)), procs[p].ip)

\* C27: verifyCredentials tests the throttle, then the user's existence and
\* active flag, then the password, then the allow-list.  A locked-out
\* address gets RateLimited whatever it sends; otherwise an unknown user or
\* a wrong password gets InvalidCredentials, also from an address outside
\* the allow-list; AccessDenied is returned only for the right password.
C27_ChecksInOrder ==
    \A p \in Procs :
        Returned(p, "verifyCredentials") =>
            /\ Locked(p) <=> procs[p].result = "RateLimited"
            /\ (~ Locked(p) /\ ~ ValidCredentials(p))
                  => procs[p].result = "InvalidCredentials"
            /\ (~ Locked(p) /\ ValidCredentials(p) /\ ~ OnAllowList(p))
                  => procs[p].result = "AccessDenied"
            /\ procs[p].result = "AccessDenied"
                  => /\ ValidCredentials(p)
                     /\ ~ OnAllowList(p)
            /\ procs[p].result \in {"CodeSent", "NotificationError"}
                  => /\ ValidCredentials(p)
                     /\ OnAllowList(p)

\* A wrong password for a user of the store came from an address outside
\* the user's allow-list and was answered InvalidCredentials
C27_Witness ==
    \E p \in Procs :
        /\ Returned(p, "verifyCredentials")
        /\ KnownUser(p)
        /\ ~ ValidCredentials(p)
        /\ ~ OnAllowList(p)
        /\ procs[p].result = "InvalidCredentials"
\* The step in which the call in slot p gets past the password comparison
\* with the right password
RightPasswordStep(p) ==
    /\ procs[p].pc = "vc_compare"
    /\ procs'[p].pc # "vc_compare"
    /\ bcryptCompare(procs[p].password, procs[p].user.passwordHash)

\* The address of the call in slot p is missing from the non-empty
\* allow-list of the user the call looked up
OffAllowList(p) ==
    /\ procs[p].user.whitelistedIPs # {}
    /\ procs[p].ip \notin procs[p].user.whitelistedIPs

\* The rejection of the call in slot p: AccessDenied, one more failure on
\* record for the address, no code stored
DeniedStep(p) ==
    /\ procs'[p].pc = "done"
    /\ procs'[p].result = "AccessDenied"
    /\ loginAttempts'[procs[p].ip].count = loginAttempts[procs[p].ip].count + 1
    /\ loginAttempts'[procs[p].ip].lastAttempt = now
    /\ \A ip \in IPs \ {procs[p].ip} : loginAttempts'[ip] = loginAttempts[ip]
    /\ verificationCodes' = verificationCodes
    /\ issued' = issued
    /\ procs'[p].codeId = 0

\* C28 (as claimed): correct credentials from an address that is not on the
\* user's non-empty allow-list are rejected with AccessDenied, with exactly
\* one failure recorded for the address and no code stored; with an empty
\* allow-list no address is rejected with AccessDenied.
C28_OffListDenied ==
    [][\A p \in Procs :
          /\ (RightPasswordStep(p) /\ OffAllowList(p)) => DeniedStep(p)
          /\ (RightPasswordStep(p) /\ procs[p].user.whitelistedIPs = {})
                => procs'[p].result # "AccessDenied"]_vars

\* C28 (amended): the same, except that in development mode a local address
\* (127.0.0.1, localhost, ::1, 0.0.0.0) passes whatever the allow-list says
\* and the login goes on to the code.
C28_OffListDeniedUnlessLocal ==
    [][\A p \in Procs :
          LET local == nodeEnv = "development" /\ procs[p].ip \in localhostIPs
          IN  /\ (RightPasswordStep(p) /\ OffAllowList(p) /\ ~ local)
                    => DeniedStep(p)
              /\ (RightPasswordStep(p) /\ OffAllowList(p) /\ local)
                    => /\ procs'[p].pc = "vc_send"
                       /\ verificationCodes'[procs'[p].codeId] # NoCode
                       /\ loginAttempts' = loginAttempts
              /\ (RightPasswordStep(p) /\ procs[p].user.whitelistedIPs = {})
                    => procs'[p].result # "AccessDenied"
              /\ procs'[p].result = "AccessDenied"
                    => \A id \in UserIds : users[id].whitelistedIPs # {}]_vars

\* Correct credentials were rejected from an address off the allow-list,
\* with one failure on record for the address and no code in the cache
C28_Witness ==
    \E p \in Procs :
        /\ Returned(p, "verifyCredentials")
        /\ ValidCredentials(p)
        /\ procs[p].result = "AccessDenied"
        /\ procs[p].seen.count = 0
        /\ loginAttempts[procs[p].ip].count = 1
        /\ \A c \in CodeIds : verificationCodes[c] = NoCode
\* The entry of a code id passed the checks of a call that has returned
\* without creating a session: it stays marked used
Burned(codeId) ==
    /\ verificationCodes[codeId] # NoCode
    /\ verificationCodes[codeId].used
    /\ created[codeId] = 0
    /\ \A q \in Procs : ~ (/\ procs[q].op = "verify2FACode"
                           /\ procs[q].codeId = codeId
                           /\ procs[q].pc \notin {"idle", "done"})

\* C29: when the code passed every check and the user looked up again is
\* absent or inactive, verify2FACode returns UserUnavailable; the step
\* creates no session and changes neither the throttle tracker nor the
\* cache, where the entry stays marked used; a later submission of that
\* code id before the expiry is answered CodeAlreadyUsed, whatever code and
\* address it carries.
C29_UnavailableUserBurnsCode ==
    [][\A p \in Procs :
          /\ (procs[p].pc = "v2_getUser" /\ procs'[p].pc # "v2_getUser")
                => LET user == getUserByEmail(procs[p].email)
                   IN  IF user = NoUser \/ ~ user.isActive
                       THEN /\ procs'[p].pc = "done"
                            /\ procs'[p].result = "UserUnavailable"
                            /\ procs'[p].token = EmptyToken
                            /\ sessions' = sessions
                            /\ minted' = minted
                            /\ loginAttempts' = loginAttempts
                            /\ verificationCodes' = verificationCodes
                            /\ Burned(procs[p].codeId)'
                       ELSE procs'[p].result # "UserUnavailable"
          /\ (/\ procs'[p].seq = callsLeft
              /\ procs'[p].op = "verify2FACode"
              /\ Burned(procs'[p].codeId)
              /\ now <= verificationCodes[procs'[p].codeId].expiresAt)
                => /\ procs'[p].pc = "done"
                   /\ procs'[p].result = "CodeAlreadyUsed"
                   /\ verificationCodes' = verificationCodes
                   /\ loginAttempts' = loginAttempts]_vars

\* The issued code was submitted again from the issuing address, after a
\* submission that ended with UserUnavailable, and was refused as used
C29_Witness ==
    \E p \in Procs :
        /\ Returned(p, "verify2FACode")
        /\ CorrectSubmission(p)
        /\ procs[p].result = "CodeAlreadyUsed"
        /\ Burned(procs[p].codeId)
        /\ \A t \in Tokens : sessions[t] = NoSession
\* The user who owns the session that the call in slot p looked up
Owner(p) == getUser(procs[p].session.userId)

\* C30: when verifySession finds an active, unexpired session whose user is
\* absent or inactive, it writes the session back with its active flag
\* false and reports the token invalid; the flag is never set again, so
\* every later verifySession on the token reports it invalid, also after
\* the user has been reactivated.
C30_DeactivatedSessionStaysInvalid ==
    [][/\ \A p \in Procs :
            /\ (procs[p].pc = "vs_getUser" /\ procs'[p].pc # "vs_getUser")
                  => IF Owner(p) = NoUser \/ ~ Owner(p).isActive
                     THEN procs'[p].pc = "vs_deactivate"
                     ELSE procs'[p].pc = "done" /\ procs'[p].result = "Valid"
            /\ (procs[p].pc = "vs_deactivate" /\ procs'[p].pc # "vs_deactivate")
                  => /\ procs'[p].result = "UserInactive"
                     /\ ~ sessions'[procs[p].token].isActive
                     /\ \A t \in Tokens \ {procs[p].token} : sessions'[t] = sessions[t]
            /\ (/\ procs'[p].seq = callsLeft
                /\ procs'[p].op = "verifySession"
                /\ procs'[p].token \in Tokens
                /\ sessions[procs'[p].token] # NoSession
                /\ ~ sessions[procs'[p].token].isActive)
                  => /\ procs'[p].pc = "done"
                     /\ procs'[p].result = "SessionInactive"
       /\ \A t \in Tokens :
            (sessions[t] # NoSession /\ ~ sessions[t].isActive)
                => (sessions'[t] = NoSession \/ ~ sessions'[t].isActive)]_vars

\* The token of an unexpired session is reported invalid although its user
\* is active again
C30_Witness ==
    \E p \in Procs :
        /\ Returned(p, "verifySession")
        /\ procs[p].result = "SessionInactive"
        /\ sessions[procs[p].token] # NoSession
        /\ procs[p].at <= sessions[procs[p].token].expiresAt
        /\ expiredReported[procs[p].token] = -1
        /\ getUser(sessions[procs[p].token].userId).isActive
\* A step of a cleanupExpiredData call in slot p: its start, which sweeps
\* the Session Store, or its sweep of the two maps
SweepStep(p) ==
    /\ procs'[p].op = "cleanupExpiredData"
    /\ \/ procs'[p].seq = callsLeft
       \/ procs[p].pc = "cl_maps" /\ procs'[p].pc = "done"

\* C31: a cleanupExpiredData call, wherever it falls among the steps of the
\* logins in flight, removes only code entries whose expiry is past and
\* throttle entries whose last failure is more than one hour old, and
\* rewrites no entry; an unexpired code entry stays, and what verify2FACode
\* would answer to any submission for it is the same before and after.
C31_SweepRemovesOnlyStale ==
    [][\A p \in Procs :
          SweepStep(p) =>
             /\ \A c \in CodeIds :
                   /\ verificationCodes'[c] # verificationCodes[c]
                         => /\ verificationCodes'[c] = NoCode
                            /\ now > verificationCodes[c].expiresAt
                   /\ (/\ verificationCodes[c] # NoCode
                       /\ now <= verificationCodes[c].expiresAt)
                         => \A inputCode \in CodeValues, ip \in IPs :
                               verify2FAChecks(c, inputCode, ip)'
                                  = verify2FAChecks(c, inputCode, ip)
             /\ \A ip \in IPs :
                   loginAttempts'[ip] # loginAttempts[ip]
                      => /\ loginAttempts'[ip] = NoAttempt
                         /\ now - loginAttempts[ip].lastAttempt > attemptRetention
             /\ \A t \in Tokens :
                   sessions'[t] # sessions[t]
                      => /\ sessions'[t] = NoSession
                         /\ sessions[t].expiresAt < now]_vars

\* A sweep has run while a code was unexpired and a throttle entry was
\* less than an hour old: both are still there
C31_Witness ==
    \E p \in Procs, c \in CodeIds, ip \in IPs :
        /\ Returned(p, "cleanupExpiredData")
        /\ procs[p].result = "Cleaned"
        /\ now > 0
        /\ verificationCodes[c] # NoCode
        /\ now <= verificationCodes[c].expiresAt
        /\ loginAttempts[ip] # NoAttempt
\* C32 (as claimed): every verifyCredentials call eventually returns a
\* result, also when the dispatch of the code never completes.
C32_EveryLoginReturns ==
    \A p \in Procs :
        (procs[p].op = "verifyCredentials" /\ procs[p].pc \notin {"idle", "done"})
            ~> (procs[p].pc = "done")
\* C33 (as claimed): every code entry is eventually removed from the cache
\* after its expiry, and every throttle entry once its last failure is
\* older than the retention window, by a periodic sweep and without a
\* further request for that code id or address.
C33_StaleEntriesEventuallySwept ==
    /\ \A c \in CodeIds :
          (verificationCodes[c] # NoCode /\ now > verificationCodes[c].expiresAt)
              ~> (verificationCodes[c] = NoCode)
    /\ \A ip \in IPs :
          (/\ loginAttempts[ip] # NoAttempt
           /\ now - loginAttempts[ip].lastAttempt > attemptRetention)
              ~> (loginAttempts[ip] = NoAttempt)
\* C34: a RateLimited result reports as remaining time the lockout window
\* less the time since the last recorded failure, in seconds rounded up: a
\* whole number from 1 to 900 with the window of 15 minutes, 840 when the
\* last failure was one minute before.
C34_RemainingTimeRoundedUp ==
    \A p \in Procs :
        (Returned(p, "verifyCredentials") /\ procs[p].result = "RateLimited")
            => LET left == lockoutDuration - (procs[p].at - procs[p].seen.lastAttempt)
                   seconds == procs[p].remainingTime
               IN  /\ left > 0
                   /\ seconds \in 1..900
                   /\ seconds * 1000 >= left
                   /\ (seconds - 1) * 1000 < left
                   /\ left = 14 * 60 * 1000 => seconds = 840

\* A call was refused one millisecond before the end of the lockout and
\* told to wait one second
C34_Witness ==
    \E p \in Procs :
        /\ Returned(p, "verifyCredentials")
        /\ procs[p].result = "RateLimited"
        /\ procs[p].at - procs[p].seen.lastAttempt = lockoutDuration - 1
        /\ procs[p].remainingTime = 1
\* C35 (as claimed): however the verifyCredentials calls from one address
\* overlap, the failure count recorded for the address never exceeds
\* maxLoginAttempts.
C35_CountNeverExceedsLimit ==
    \A ip \in IPs : loginAttempts[ip].count <= maxLoginAttempts
\* A login created a session under the token
WasCreated(token) == minted[token] # 0 /\ created[minted[token]] > 0

\* The session created under the token is deleted, inactive or expired
Dead(token) ==
    /\ WasCreated(token)
    /\ \/ sessions[token] = NoSession
       \/ ~ sessions[token].isActive
       \/ sessionExpired(sessions[token])

\* C36: the active flag of a session only ever goes from true to false and
\* a deleted session is not created again, so a session that is deleted,
\* inactive or expired stays so; when verifySession reports a created token
\* invalid the session is in that condition, and every verifySession call
\* that begins afterwards reports the token invalid too.
C36_SessionNeverRevived ==
    [][/\ \A t \in Tokens :
            /\ (sessions[t] # NoSession /\ ~ sessions[t].isActive)
                  => (sessions'[t] = NoSession \/ ~ sessions'[t].isActive)
            /\ (WasCreated(t) /\ sessions[t] = NoSession) => sessions'[t] = NoSession
            /\ (sessions[t] # NoSession /\ sessions'[t] # NoSession)
                  => sessions'[t].expiresAt = sessions[t].expiresAt
            /\ Dead(t) => Dead(t)'
       /\ \A p \in Procs :
            /\ (/\ procs'[p].op = "verifySession"
                /\ procs'[p].pc = "done"
                /\ (procs[p].pc # "done" \/ procs'[p].seq = callsLeft)
                /\ procs'[p].result # "Valid")
                  => \A t \in Tokens :
                        (procs'[p].token = t /\ WasCreated(t)) => Dead(t)'
            /\ (/\ procs'[p].op = "verifySession"
                /\ procs'[p].seq = callsLeft
                /\ procs'[p].token \in Tokens
                /\ Dead(procs'[p].token))
                  => /\ procs'[p].pc \in {"done", "vs_expire"}
                     /\ procs'[p].result # "Valid"]_vars

\* verifySession reports the token of a session that a logout deleted
C36_Witness ==
    \E p \in Procs :
        /\ Returned(p, "verifySession")
        /\ procs[p].token \in Tokens
        /\ WasCreated(procs[p].token)
        /\ loggedOut[procs[p].token] # -1
        /\ sessions[procs[p].token] = NoSession
        /\ procs[p].result = "InvalidToken"
\* The code ids that verifyCredentials has stored a code under so far; it
\* does so for a call that passed the throttle, the credential and the
\* allow-list checks
IssuedCodeIds == {c \in CodeIds : issued[c] # NoCode}

\* C37: every session in the Session Store was created by a verify2FACode
\* call on a code id that verifyCredentials issued, after its checks had
\* passed, for the user who owns the session and to the address the
\* session records; no code id gave rise to more than one session, so the
\* sessions ever created are at most as many as the code ids ever issued.
C37_SessionsComeFromIssuedCodes ==
    /\ \A t \in Tokens :
          sessions[t] # NoSession =>
             /\ minted[t] \in IssuedCodeIds
             /\ created[minted[t]] >= 1
             /\ sessions[t].ipAddress = issued[minted[t]].ip
             /\ getUser(sessions[t].userId) # NoUser
             /\ getUser(sessions[t].userId).email = issued[minted[t]].email
    /\ \A c \in CodeIds : created[c] <= IF c \in IssuedCodeIds THEN 1 ELSE 0
    /\ \A t, u \in Tokens : (minted[t] # 0 /\ minted[t] = minted[u]) => t = u
    /\ Cardinality({t \in Tokens : minted[t] # 0 /\ created[minted[t]] > 0})
          <= Cardinality(IssuedCodeIds)

\* A login has returned and its session is in the store, for the address
\* that the code was issued to
C37_Witness ==
    \E p \in Procs :
        /\ Returned(p, "verify2FACode")
        /\ procs[p].result = "LoginSuccessful"
        /\ sessions[procs[p].token] # NoSession
        /\ sessions[procs[p].token].ipAddress = "1.2.3.4"
        /\ succeeded[procs[p].codeId] = 1
\* A step of a changePassword or updateIPWhitelist call in slot p
ProfileStep(p) ==
    /\ procs'[p].op \in {"changePassword", "updateIPWhitelist"}
    /\ \/ procs'[p].seq = callsLeft
       \/ procs[p].pc = "cp_update" /\ procs'[p].pc = "done"

\* C38: changePassword and updateIPWhitelist write the password hash and
\* the allow-list of the user's record and nothing else: sessions, code
\* entries and throttle entries stay as they are.  verifySession looks at
\* neither the password nor the allow-list, so a session issued before the
\* change is still reported valid, also from an address that the new
\* allow-list excludes.
C38_ProfileChangesKeepSessions ==
    [][\A p \in Procs :
          /\ ProfileStep(p) =>
                /\ sessions' = sessions
                /\ verificationCodes' = verificationCodes
                /\ loginAttempts' = loginAttempts
                /\ \A id \in UserIds :
                      [users'[id] EXCEPT
                          !.passwordHash = users[id].passwordHash,
                          !.whitelistedIPs = users[id].whitelistedIPs] = users[id]
                /\ procs'[p].result = "PasswordChanged"
                      => bcryptCompare(procs'[p].newPassword,
                                       users'[procs'[p].userId].passwordHash)
                /\ procs'[p].result = "WhitelistUpdated"
                      => users'[procs'[p].userId].whitelistedIPs = procs'[p].ips
          /\ (/\ procs'[p].seq = callsLeft
              /\ procs'[p].op = "verifySession"
              /\ sessions[procs'[p].token] # NoSession
              /\ sessions[procs'[p].token].isActive
              /\ ~ sessionExpired(sessions[procs'[p].token]))
                => procs'[p].pc = "vs_getUser"
          /\ (/\ procs[p].pc = "vs_getUser"
              /\ procs'[p].pc # "vs_getUser"
              /\ Owner(p) # NoUser
              /\ Owner(p).isActive)
                => /\ procs'[p].pc = "done"
                   /\ procs'[p].result = "Valid"]_vars

\* A session from address 127.0.0.1, issued on the first password, is
\* reported valid after the password was changed and the allow-list was
\* set to another address
C38_Witness ==
    \E p \in Procs :
        /\ Returned(p, "verifySession")
        /\ procs[p].result = "Valid"
        /\ sessions[procs[p].token].ipAddress = "127.0.0.1"
        /\ users[1].whitelistedIPs = {"1.2.3.4"}
        /\ changed # NoChange
        /\ bcryptCompare("hunter22", users[1].passwordHash)
        /\ ~ bcryptCompare("secret123", users[1].passwordHash)
\* C39: the sweep never ends a lockout early.  An address that
\* checkLoginAttempts rejects before a step of cleanupExpiredData is
\* rejected after the step as well, with the same entry: the sweep removes
\* entries older than the retention of one hour only, and the lockout
\* lasts 15 minutes from the last failure.
C39_SweepKeepsLockout ==
    [][\A p \in Procs :
          SweepStep(p) =>
             \A ip \in IPs :
                ~ checkLoginAttempts(ip)
                   => /\ ~ checkLoginAttempts(ip)'
                      /\ loginAttempts'[ip] = loginAttempts[ip]]_vars

\* A sweep has run a minute into the lockout of an address, which is still
\* locked out
C39_Witness ==
    \E p \in Procs, ip \in IPs :
        /\ Returned(p, "cleanupExpiredData")
        /\ procs[p].result = "Cleaned"
        /\ loginAttempts[ip].count >= maxLoginAttempts
        /\ procs[p].at - loginAttempts[ip].lastAttempt >= 60 * 1000
        /\ ~ checkLoginAttempts(ip)
\* The call in slot p is a verifyCredentials call that has returned a
\* dispatch failure
DispatchFailed(p) ==
    /\ Returned(p, "verifyCredentials")
    /\ procs[p].result = "NotificationError"

\* C40: when the dispatch of the code fails, verifyCredentials returns a
\* notification failure; the entry it stored before the dispatch stays in
\* the cache, unused, and no failure is recorded for the address.  A
\* verify2FACode call with that code id, the stored code and the same
\* address, before the expiry, passes the checks and goes on to issue a
\* session.
C40_UndispatchedCodeRedeemable ==
    [][\A p \in Procs :
          /\ (procs[p].pc = "vc_send" /\ procs'[p].pc = "done")
                => /\ (~ procs'[p].delivered /\ nodeEnv # "development")
                         <=> procs'[p].result = "NotificationError"
                   /\ verificationCodes' = verificationCodes
                   /\ loginAttempts' = loginAttempts
                   /\ verificationCodes'[procs[p].codeId] # NoCode
                   /\ ~ verificationCodes'[procs[p].codeId].used
                   /\ verificationCodes'[procs[p].codeId].code = procs[p].code
                   /\ verificationCodes'[procs[p].codeId].ip = procs[p].ip
          /\ (/\ DispatchFailed(p)
              /\ procs'[p].seq = callsLeft
              /\ procs'[p].op = "verify2FACode"
              /\ procs'[p].codeId = procs[p].codeId
              /\ procs'[p].code = procs[p].code
              /\ procs'[p].ip = procs[p].ip
              /\ now <= issued[procs[p].codeId].expiresAt)
                => /\ procs'[p].pc = "v2_getUser"
                   /\ verificationCodes'[procs[p].codeId].used
          /\ (DispatchFailed(p) /\ procs'[p] = procs[p])
                => /\ verificationCodes' = verificationCodes
                   /\ loginAttempts' = loginAttempts]_vars

\* The dispatch failed and the stored entry is in the cache, unused and
\* unexpired, so that the checks of verify2FACode would pass
C40_Witness ==
    \E p \in Procs :
        /\ DispatchFailed(p)
        /\ procs[p].resultCodeId = 0
        /\ verificationCodes[procs[p].codeId] # NoCode
        /\ ~ verificationCodes[procs[p].codeId].used
        /\ now > procs[p].at
        /\ loginAttempts[procs[p].ip] = NoAttempt
        /\ verify2FAChecks(procs[p].codeId, procs[p].code, procs[p].ip) = "ok"
====
